---- MODULE Spec2Model ----
(***************************************************************************)
(* A model of the wiki maintenance scripts: the concurrent scan phase      *)
(* (ThreadPoolExecutor + as_completed), the mutation queue, and the serial *)
(* commit phase of delete_pages, findandreplace / multifindandreplace,     *)
(* languagepages, languageheader and languageredirects, together with the  *)
(* edit-history safety gate of delete_pages.                               *)
(*                                                                         *)
(* The wiki (pywikibot) is the environment: a store call answers from the  *)
(* store state or raises.  Time is counted in seconds slept: every step    *)
(* other than time.sleep takes no time, which is the fastest run the code  *)
(* allows and so the one a minimum-delay property has to survive.          *)
(***************************************************************************)
EXTENDS Integers, Sequences, FiniteSets, TLC

VARIABLES
    script,               \* which program of the repository is running
    pc,                   \* position of the main thread
    titles,               \* the titles read from search_results.txt, in file order
    workers,              \* per submitted task: the pool thread's position, its result
                          \* and (k) the queue puts it has made
    handled,              \* per submitted task: times the as_completed loop consumed it
    pageExists,           \* store: which pages exist
    pageText,             \* store: the text of each page
    item,                 \* the item the committer holds
    in_flight,            \* mutation calls (save/delete) issued and not yet returned
    since_mut,            \* seconds slept since the last mutation call returned
    last_gap,             \* since_mut as it was when the latest mutation call started
    mutated,              \* titles that have received a mutation call
    dequeued,             \* items the committer has taken
    not_found,            \* items the committer skipped as not existing
    choice,               \* delete_pages: the menu option being run
    runs,                 \* delete_pages: menu options the operator will still choose
    deletion_queue,       \* delete_pages: the process-wide queue.Queue
    redirect_data,        \* delete_pages: phase_1's dict, as a sequence of <<key, value>>
    json_file,            \* delete_pages: redirect_data.json
    skipped_unsafe,       \* delete_pages.phase_1 counter
    processed_safe,       \* delete_pages.phase_1 counter
    error_outcomes,       \* delete_pages.phase_1: outcomes of the ERROR / raised branches
    successful_deletions, \* delete_pages.process_deletion_queue counter
    failed_deletions,     \* delete_pages.process_deletion_queue counter
    gate_passed,          \* titles for which check_page_edit_safety returned True
    scan_put,             \* titles put into deletion_queue by scan workers
    safe_outcome,         \* titles with a SAFE outcome consumed by phase_1
    edit_queue,           \* findandreplace / multifindandreplace: the queue.Queue
    queue,                \* languagepages: the list of articles to create
    pages_to_edit_queue,  \* languageheader: the list of (subpage, header) to edit
    redirect_dict,        \* languageredirects: page -> title value, filled by the workers
    unique_redirect_dict, \* languageredirects: the entries left to create
    gate_in,              \* safety gate alone: the store's answers for one title
    gate_out,             \* safety gate alone: the result for gate_in
    now,                  \* search: time.time(), in units of half a day
    cache_file,           \* search: wiki_cache.json (exists, mtime, data, whether complete)
    wiki_cache,           \* search: the mapping being built or used, <<title, text>> pairs
    valid,                \* search: what is_cache_valid last returned
    snapshot,             \* search: when the last complete snapshot was persisted
    task,                 \* search: the arguments of the matching function under call
    result,               \* search: what that call returned
    oldid_q,              \* oldid: q, the queue.Queue of titles to process
    redirect_page_exists, \* languageredirects.create_redirect: what redirect_page.exists() answered
    confirm,              \* delete_pages.phase_2: the answer at the confirmation prompt
    wiki_dir_future,      \* search.main: the background update_wiki_directory task
    wiki_directory_file,  \* search: wiki_directory.txt (exists, mtime, lines)
    settings,             \* search.main: what the operator answered at the prompts
    tasks,                \* search.main: the tuples handed to search_page
    matching_titles,      \* search.main: the titles the pool returned so far
    search_results        \* search.main: the lines written to search_results.txt

sched == <<script, pc, titles, workers, handled>>
store == <<pageExists, pageText>>
commit == <<item, in_flight, since_mut, last_gap, mutated, dequeued, not_found>>
menu == <<choice, runs, confirm>>
delmaps == <<redirect_data, json_file>>
delscan == <<skipped_unsafe, processed_safe, error_outcomes, gate_passed, scan_put, safe_outcome>>
delcount == <<successful_deletions, failed_deletions>>
others == <<edit_queue, queue, pages_to_edit_queue, redirect_dict, unique_redirect_dict,
            gate_in, gate_out>>
cachevars == <<now, cache_file, wiki_cache, valid, snapshot>>
matchvars == <<task, result>>
mainvars == <<wiki_dir_future, wiki_directory_file, settings, tasks, matching_titles,
              search_results>>
lrvars == <<redirect_page_exists>>
oldidvars == <<oldid_q>>
searchvars == <<cachevars, matchvars, mainvars>>
vars == <<sched, store, commit, menu, deletion_queue, delmaps, delscan, delcount, others,
          cachevars, matchvars, mainvars, lrvars, oldidvars>>

----------------------------------------------------------------------------
(* Bounds of the model *)

\* longest title list read from search_results.txt
MaxTitles == 2
\* longest revision history handed to the safety gate
MaxHist == 3

----------------------------------------------------------------------------
(* The wiki *)

Titles == {"A", "B", "R"}
NoItem == "<none>"
NoMutation == -1

SeqsUpTo(S, n) == UNION {[1..k -> S] : k \in 0..n}

\* the elements of s at the indices in K, in order
Pick(s, K) ==
    LET F[i \in 0..Len(s)] ==
            IF i = 0 THEN <<>>
            ELSE IF i \in K THEN Append(F[i - 1], s[i]) ELSE F[i - 1]
    IN  F[Len(s)]

Range(s) == {s[i] : i \in DOMAIN s}

\* the pages that link to a title as redirects (getReferences(filter_redirects=True))
Backlinks == [t \in Titles |-> IF t = "A" THEN <<"R">> ELSE <<>>]

\* the editors of each page's revisions, latest first
History ==
    [t \in Titles |->
        IF t = "A" THEN <<"CalvyBot", "Calvy">>
        ELSE IF t = "B" THEN <<"Calvy">>
        ELSE <<"CalvyBot", "Human", "Calvy">>]

----------------------------------------------------------------------------
(* delete_pages.check_page_edit_safety *)

allowed_editors == {"CalvyBot", "Calvy"}
Editors == allowed_editors \cup {"Human", ""}
NoFail == -1

\* the loop over page.revisions(): the iterator raises after yielding failAt
\* revisions (NoFail: it ends normally); an empty editor is skipped by
\* `if editor and ...`
scan_revisions_failopen(revs, failAt) ==
    LET F[i \in 1..(Len(revs) + 1)] ==
            IF failAt = i - 1 THEN TRUE
            ELSE IF i > Len(revs) THEN TRUE
            ELSE IF revs[i] # "" /\ revs[i] \notin allowed_editors THEN FALSE
            ELSE F[i + 1]
    IN  F[1]

scan_revisions(revs, failAt) ==
    LET F[i \in 1..(Len(revs) + 1)] ==
            IF failAt = i - 1 THEN FALSE
            ELSE IF i > Len(revs) THEN TRUE
            ELSE IF revs[i] # "" /\ revs[i] \notin allowed_editors THEN FALSE
            ELSE F[i + 1]
    IN  F[1]

\* ex is the answer of page.exists(): "yes", "no" or "raise"
check_page_edit_safety(ex, revs, failAt) ==
    IF ex = "raise" THEN FALSE
    ELSE IF ex = "no" THEN FALSE
    ELSE scan_revisions(revs, failAt)

\* every answer the store can give for one existing or missing title: a page
\* has at least one revision
GateInputs ==
    {g \in [ex : {"yes", "no", "raise"},
            revs : SeqsUpTo(Editors, MaxHist) \ {<<>>},
            failAt : {NoFail} \cup (0..MaxHist)] : g.failAt <= Len(g.revs)}

----------------------------------------------------------------------------
(* Values shared by the scripts *)

\* a dict as Python keeps it: insertion-ordered <<key, value>> pairs, a
\* second assignment to a key replacing the value in place
DictHas(d, k) == \E i \in DOMAIN d : d[i][1] = k

DictSet(d, k, v) ==
    IF DictHas(d, k)
    THEN [i \in DOMAIN d |-> IF d[i][1] = k THEN <<k, v>> ELSE d[i]]
    ELSE Append(d, <<k, v>>)

DictKeys(d) == {d[i][1] : i \in DOMAIN d}

\* the committer's loop is one thread: it takes the next item only when it is
\* back at the head of the loop, its previous store call having returned
committer_overlapping(loop) == pc = loop \/ in_flight > 0

committer_ready(loop) == pc = loop

\* time.sleep(seconds) stands inside the branch that saved, after the save:
\* the seconds an item makes the committer sleep
rate_limit_every_item(saved, seconds) == seconds

rate_limit(saved, seconds) == IF saved THEN seconds ELSE 0

\* the seconds slept since the last mutation call returned, after more sleep
slept(since, seconds) == IF since = NoMutation THEN NoMutation ELSE since + seconds

\* the except clauses of process_deletion_queue: what a page.delete outcome
\* is counted as
classify_delete_nopage_failed(outcome) ==
    IF outcome = "ok" THEN "success" ELSE "failed"

classify_delete_errors_dropped(outcome) ==
    IF outcome = "ok" THEN "success" ELSE "skipped"

classify_delete(outcome) ==
    IF outcome = "ok" THEN "success"
    ELSE IF outcome = "NoPageError" THEN "skipped"
    ELSE "failed"

\* the pool's `with` block: the as_completed loop runs until every future
\* has been handed out, and leaving the block waits for every thread
pool_block_left_early(ws, hd) == TRUE

pool_block_done(ws, hd) ==
    /\ \A i \in DOMAIN hd : hd[i] > 0
    /\ \A i \in DOMAIN ws : ws[i].pc = "done"

\* what page.exists() can answer for a title: the store's state, or an
\* exception; an empty title is no page name and only raises
ExistsAnswers(t) ==
    IF t = "" THEN {"raise"} ELSE {IF pageExists[t] THEN "yes" ELSE "no", "raise"}

\* the lines readlines() / iterating the file yields: a title, or nothing but
\* the line end
Blank == "\n"

Lines == Titles \cup {Blank}

FileContents == SeqsUpTo(Lines, MaxTitles)

\* str.strip()
strip(line) == IF line = Blank THEN "" ELSE line

\* [page.strip() for page in pages]
stripped(ls) == [i \in DOMAIN ls |-> strip(ls[i])]

\* [line.strip() for line in f if line.strip()]
stripped_nonblank(ls) == SelectSeq(stripped(ls), LAMBDA l : l # "")

CommitIdle ==
    /\ item = NoItem
    /\ in_flight = 0
    /\ since_mut = NoMutation
    /\ last_gap = NoMutation
    /\ mutated = {}
    /\ dequeued = 0
    /\ not_found = 0

NoArtifact == [state |-> "missing", data |-> <<>>, fresh |-> FALSE]

NotAsked == "not asked"

DeleteIdle ==
    /\ choice = "none"
    /\ confirm = NotAsked
    /\ deletion_queue = <<>>
    /\ redirect_data = <<>>
    /\ skipped_unsafe = 0
    /\ processed_safe = 0
    /\ error_outcomes = 0
    /\ successful_deletions = 0
    /\ failed_deletions = 0
    /\ gate_passed = {}
    /\ scan_put = {}
    /\ safe_outcome = {}

OthersIdle ==
    /\ edit_queue = <<>>
    /\ queue = <<>>
    /\ pages_to_edit_queue = <<>>
    /\ redirect_dict = <<>>
    /\ unique_redirect_dict = <<>>

NoCache == [exists |-> FALSE, mtime |-> 0, data |-> <<>>, complete |-> FALSE]

CacheIdle ==
    /\ now = 0
    /\ cache_file = NoCache
    /\ wiki_cache = <<>>
    /\ valid = FALSE
    /\ snapshot = [ok |-> FALSE, at |-> 0]

NoTask == [name |-> "none"]

MatchIdle ==
    /\ task = NoTask
    /\ result = "none"

NoDirectory == [exists |-> FALSE, mtime |-> 0, lines |-> <<>>]

NoSettings == [asked |-> FALSE]

MainIdle ==
    /\ redirect_page_exists = "not asked"
    /\ oldid_q = <<>>
    /\ wiki_dir_future = "None"
    /\ wiki_directory_file = NoDirectory
    /\ settings = NoSettings
    /\ tasks = <<>>
    /\ matching_titles = <<>>
    /\ search_results = <<>>

GateIdle ==
    /\ gate_in = [ex |-> "no", revs |-> <<>>, failAt |-> NoFail]
    /\ gate_out = "none"

StoreDefault ==
    /\ pageExists = [t \in Titles |-> TRUE]
    /\ pageText = [t \in Titles |-> <<>>]

\* the tasks whose futures the as_completed loop iterates: one per submitted
\* title, the dict being keyed by the future
FuturesByTitle(ts) == {i \in DOMAIN ts : \A j \in DOMAIN ts : ts[j] = ts[i] => i <= j}

Futures(ts) == DOMAIN ts

----------------------------------------------------------------------------
(* The safety gate on its own: check_page_edit_safety over every answer   *)
(* the store can give for one title                                        *)

InitGate ==
    /\ script = "gate"
    /\ pc = "call"
    /\ titles = <<>>
    /\ workers = <<>>
    /\ handled = <<>>
    /\ StoreDefault
    /\ CommitIdle
    /\ DeleteIdle
    /\ runs = 0
    /\ json_file = NoArtifact
    /\ OthersIdle
    /\ CacheIdle
    /\ MatchIdle
    /\ MainIdle
    /\ gate_in \in GateInputs
    /\ gate_out = "none"

GateCall ==
    /\ script = "gate"
    /\ pc = "call"
    /\ gate_out' = check_page_edit_safety(gate_in.ex, gate_in.revs, gate_in.failAt)
    /\ pc' = "returned"
    /\ UNCHANGED <<searchvars, lrvars, oldidvars, script, titles, workers, handled, store, commit, menu,
                   deletion_queue, delmaps, delscan, delcount, edit_queue, queue,
                   pages_to_edit_queue, redirect_dict, unique_redirect_dict, gate_in>>

NextGate == GateCall

SpecGate == InitGate /\ [][NextGate]_vars

----------------------------------------------------------------------------
(* delete_pages *)

\* the redirects find_redirects_to_page returns: the existing backlinks of
\* the title, less those in `skipped` (a referring page whose check raised,
\* or everything after an exception that ended the loop)
find_redirects_to_page(t, skipped) ==
    LET live == {i \in DOMAIN Backlinks[t] : pageExists[Backlinks[t][i]]}
    IN  Pick(Backlinks[t], live \ skipped)

\* phase_2's queue contents: each key followed by its redirects
Flatten(d) ==
    LET F[i \in 0..Len(d)] ==
            IF i = 0 THEN <<>> ELSE (F[i - 1] \o <<d[i][1]>>) \o d[i][2]
    IN  F[Len(d)]

\* an artifact an earlier run of the script may have left behind
OldArtifact == [state |-> "ok", data |-> <<<<"B", <<>>>>>>, fresh |-> FALSE]

InitDelete ==
    /\ script = "delete_pages"
    /\ pc = "menu"
    /\ titles = <<>>
    /\ workers = <<>>
    /\ handled = <<>>
    /\ StoreDefault
    /\ CommitIdle
    /\ DeleteIdle
    /\ runs = 1
    /\ json_file \in {NoArtifact, OldArtifact}
    /\ OthersIdle
    /\ CacheIdle
    /\ MatchIdle
    /\ MainIdle
    /\ GateIdle

\* main: show_main_menu returns the operator's choice
main_menu(c) ==
    /\ script = "delete_pages"
    /\ pc = "menu"
    /\ runs > 0
    /\ choice' = c
    /\ runs' = runs - 1
    /\ pc' = IF c = "2" THEN "p2_load" ELSE IF c = "4" THEN "exit" ELSE "p1_start"
    /\ UNCHANGED <<searchvars, lrvars, oldidvars, script, titles, workers, handled, store, commit, confirm,
                   deletion_queue, delmaps, delscan, delcount, others>>

\* phase_1 up to the submission of every task to the pool: the title list is
\* read (False is returned when the file is missing or holds no title)
phase_1_submit(found, ls) ==
    /\ script = "delete_pages"
    /\ pc = "p1_start"
    /\ titles' = IF found THEN stripped_nonblank(ls) ELSE <<>>
    /\ IF titles' = <<>>
       THEN /\ pc' = "menu"
            /\ UNCHANGED <<workers, handled, redirect_data, delscan>>
       ELSE /\ pc' = "p1_collect"
            /\ workers' = [i \in DOMAIN titles' |->
                    [pc |-> "ready", gate |-> "none", reds |-> <<>>, k |-> 0, out |-> "none"]]
            /\ handled' = [i \in DOMAIN titles' |-> 0]
            /\ redirect_data' = <<>>
            /\ skipped_unsafe' = 0
            /\ processed_safe' = 0
            /\ error_outcomes' = 0
            /\ safe_outcome' = {}
            /\ UNCHANGED <<gate_passed, scan_put>>
    /\ json_file' = [json_file EXCEPT !.fresh = FALSE]
    /\ UNCHANGED <<searchvars, lrvars, oldidvars, script, store, commit, menu, deletion_queue, delcount,
                   others>>

Faults == {"none", "ERROR", "raised"}

\* why the gate answered as it did, read off the store's answers
GateCase(ex, revs, failAt) ==
    IF ex = "no" THEN "absent"
    ELSE IF ex = "raise" THEN "raised"
    ELSE IF \E j \in DOMAIN revs :
                /\ revs[j] # "" /\ revs[j] \notin allowed_editors
                /\ (failAt = NoFail \/ j <= failAt)
         THEN "editor"
    ELSE IF failAt # NoFail THEN "raised"
    ELSE "clean"

\* process_page_for_redirects in a pool thread: the safety check, then (if
\* safe) the redirect search.  `fault` is an exception raised in the body of
\* the try other than by the two helpers, which catch their own: "none", or
\* how the except branch ends ("ERROR" returned, or "raised" when the branch
\* raises itself).
process_page_check(i, ex, failAt, skipped, fault) ==
    LET t == titles[i]
        is_safe == check_page_edit_safety(ex, History[t], failAt)
        why == GateCase(ex, History[t], failAt)
    IN  /\ script = "delete_pages"
        /\ pc = "p1_collect"
        /\ workers[i].pc = "ready"
        /\ gate_passed' = IF is_safe THEN gate_passed \cup {t} ELSE gate_passed
        /\ workers' = [workers EXCEPT ![i] =
                IF fault # "none"
                THEN [@ EXCEPT !.pc = "done", !.gate = why, !.out = fault]
                ELSE IF ~is_safe
                THEN [@ EXCEPT !.pc = "done", !.gate = why, !.out = "SKIPPED_UNSAFE"]
                ELSE [@ EXCEPT !.pc = "put", !.gate = why,
                               !.reds = find_redirects_to_page(t, skipped)]]
        /\ UNCHANGED <<searchvars, lrvars, oldidvars, script, pc, titles, handled, store, commit, menu,
                       deletion_queue, delmaps, skipped_unsafe, processed_safe,
                       error_outcomes, scan_put, safe_outcome, delcount, others>>

\* deletion_queue.put(title): the title is queued for phase 2 and the store
\* is not called; what the put leaves of the store's pages
put_deletes_page(exists, x) == [exists EXCEPT ![x] = FALSE]

put_leaves_pages(exists, x) == exists

\* process_page_for_redirects: one deletion_queue.put, the main page first,
\* and the return of SAFE after the last
process_page_put(i, fault) ==
    LET w == workers[i]
        x == IF w.k = 0 THEN titles[i] ELSE w.reds[w.k]
        last == w.k = Len(w.reds)
    IN  /\ script = "delete_pages"
        /\ pc = "p1_collect"
        /\ w.pc = "put"
        /\ IF fault # "none"
           THEN /\ workers' = [workers EXCEPT ![i] =
                        [@ EXCEPT !.pc = "done", !.reds = <<>>, !.out = fault]]
                /\ UNCHANGED <<deletion_queue, scan_put, pageExists>>
           ELSE /\ deletion_queue' = Append(deletion_queue, x)
                /\ scan_put' = scan_put \cup {x}
                /\ pageExists' = put_leaves_pages(pageExists, x)
                /\ workers' = [workers EXCEPT ![i] =
                        IF last
                        THEN [@ EXCEPT !.pc = "done", !.k = w.k + 1, !.out = "SAFE"]
                        ELSE [@ EXCEPT !.k = w.k + 1]]
        /\ UNCHANGED <<searchvars, lrvars, oldidvars, script, pc, titles, handled, pageText, commit, menu,
                       delmaps, skipped_unsafe, processed_safe, error_outcomes,
                       gate_passed, safe_outcome, delcount, others>>

\* a task whose future the main thread has consumed: nothing reads it again
Consumed == [pc |-> "done", gate |-> "none", reds |-> <<>>, k |-> 0, out |-> "consumed"]

\* phase_1: one iteration of the as_completed loop
phase_1_collect(i) ==
    LET w == workers[i]
        t == titles[i]
    IN  /\ script = "delete_pages"
        /\ pc = "p1_collect"
        /\ i \in Futures(titles)
        /\ w.pc = "done"
        /\ handled[i] = 0
        /\ handled' = [handled EXCEPT ![i] = @ + 1]
        /\ workers' = [workers EXCEPT ![i] = Consumed]
        /\ IF w.out = "SKIPPED_UNSAFE"
           THEN /\ skipped_unsafe' = skipped_unsafe + 1
                /\ UNCHANGED <<processed_safe, error_outcomes, redirect_data, safe_outcome>>
           ELSE IF w.out = "SAFE"
           THEN /\ processed_safe' = processed_safe + 1
                /\ redirect_data' = DictSet(redirect_data, t, w.reds)
                /\ safe_outcome' = safe_outcome \cup {t}
                /\ UNCHANGED <<skipped_unsafe, error_outcomes>>
           ELSE /\ error_outcomes' = error_outcomes + 1
                /\ redirect_data' = DictSet(redirect_data, t, <<>>)
                /\ UNCHANGED <<skipped_unsafe, processed_safe, safe_outcome>>
        /\ UNCHANGED <<searchvars, lrvars, oldidvars, script, pc, titles, store, commit, menu,
                       deletion_queue, json_file, gate_passed, scan_put, delcount,
                       others>>

\* phase_1: the `with` block ends once every future has been consumed and
\* every pool thread has finished; the totals are printed
phase_1_pool_exit ==
    /\ script = "delete_pages"
    /\ pc = "p1_collect"
    /\ pool_block_done(workers, [i \in Futures(titles) |-> handled[i]])
    /\ pc' = "p1_report"
    /\ UNCHANGED <<searchvars, lrvars, oldidvars, script, titles, workers, handled, store, commit, menu,
                   deletion_queue, delmaps, delscan, delcount, others>>

\* phase_1: save_redirect_data, whose failure is caught and printed, and
\* return True; phase_1's locals end with it
phase_1_save(saved) ==
    /\ script = "delete_pages"
    /\ pc = "p1_report"
    /\ json_file' = IF saved
                    THEN [state |-> "ok", data |-> redirect_data, fresh |-> TRUE]
                    ELSE json_file
    /\ pc' = IF choice = "3" THEN "p2_load" ELSE "menu"
    /\ workers' = <<>>
    /\ handled' = <<>>
    /\ redirect_data' = <<>>
    /\ skipped_unsafe' = 0
    /\ processed_safe' = 0
    /\ error_outcomes' = 0
    /\ gate_passed' = {}
    /\ scan_put' = {}
    /\ UNCHANGED <<searchvars, lrvars, oldidvars, script, titles, store, commit, menu, deletion_queue,
                   safe_outcome, delcount, others>>

\* load_redirect_data: the parsed map, or None when the file is missing or
\* json.load raises
None == [is_none |-> TRUE, data |-> <<>>]

load_redirect_data_unguarded(file, parsed) == [is_none |-> FALSE, data |-> file.data]

load_redirect_data(file, parsed) ==
    IF file.state # "ok" \/ ~parsed THEN None ELSE [is_none |-> FALSE, data |-> file.data]

queue_kept(q) == q

\* while not deletion_queue.empty(): deletion_queue.get()
queue_emptied(q) == <<>>

\* phase_2: load_redirect_data and return False on None, else clear the queue
\* and fill it from the loaded map
phase_2_load(parsed) ==
    LET loaded == load_redirect_data(json_file, parsed)
    IN  /\ script = "delete_pages"
        /\ pc = "p2_load"
        /\ IF loaded = None
           THEN /\ pc' = "menu"
                /\ UNCHANGED deletion_queue
           ELSE /\ pc' = "p2_confirm"
                /\ deletion_queue' = queue_emptied(deletion_queue) \o Flatten(loaded.data)
        /\ UNCHANGED <<searchvars, lrvars, oldidvars, script, titles, workers, handled, store, commit,
                       menu, delmaps, delscan, delcount, others>>

\* what the operator may type at the confirmation prompt
ConfirmAnswers == {"yes", "Yes", "YES", "no", "y", "yes ", ""}

\* str.lower()
str_lower(a) == IF a \in {"Yes", "YES"} THEN "yes" ELSE a

confirmed_unless_no(answer) == str_lower(answer) # "no"

\* the negation of confirm.lower() != "yes"
confirmed(answer) == str_lower(answer) = "yes"

\* phase_2: the confirmation prompt; on "yes" process_deletion_queue starts
\* with its counters at zero
phase_2_confirm(answer) ==
    /\ script = "delete_pages"
    /\ pc = "p2_confirm"
    /\ confirm' = answer
    /\ IF ~confirmed(answer)
       THEN /\ pc' = "menu"
            /\ UNCHANGED <<delcount, mutated, dequeued, not_found>>
       ELSE /\ pc' = "commit"
            /\ successful_deletions' = 0
            /\ failed_deletions' = 0
            /\ mutated' = {}
            /\ dequeued' = 0
            /\ not_found' = 0
    /\ UNCHANGED <<searchvars, lrvars, oldidvars, script, titles, workers, handled, store, item, in_flight,
                   since_mut, last_gap, choice, runs, deletion_queue, delmaps, delscan,
                   others>>

\* process_deletion_queue: get the next title and re-check that it exists; an
\* absent page is skipped, an exception of the check is counted as a failure,
\* otherwise page.delete is called
process_deletion_take(ex) ==
    LET page_title == Head(deletion_queue)
    IN  /\ script = "delete_pages"
        /\ committer_ready("commit")
        /\ deletion_queue # <<>>
        /\ ex \in ExistsAnswers(page_title)
        /\ deletion_queue' = Tail(deletion_queue)
        /\ dequeued' = dequeued + 1
        /\ IF ex = "raise"
           THEN /\ failed_deletions' = failed_deletions + 1
                /\ UNCHANGED <<pc, item, in_flight, last_gap, mutated, not_found>>
           ELSE IF ex = "no"
           THEN /\ not_found' = not_found + 1
                /\ UNCHANGED <<pc, item, in_flight, last_gap, mutated, failed_deletions>>
           ELSE /\ pc' = "deleting"
                /\ item' = page_title
                /\ in_flight' = in_flight + 1
                /\ last_gap' = since_mut
                /\ mutated' = mutated \cup {page_title}
                /\ UNCHANGED <<not_found, failed_deletions>>
        /\ UNCHANGED <<searchvars, lrvars, oldidvars, script, titles, workers, handled, store, since_mut,
                       menu, delmaps, delscan, successful_deletions, others>>

DeleteOutcomes ==
    {"ok", "NoPageError", "LockedPageError", "PageNotSavedError", "PermissionError",
     "Exception"}

\* process_deletion_queue: page.delete returns or raises, the except clauses
\* classify it, and the loop goes on
process_deletion_return(outcome) ==
    /\ script = "delete_pages"
    /\ pc = "deleting"
    /\ outcome \in DeleteOutcomes
    /\ outcome = "ok" => pageExists[item]
    /\ outcome = "NoPageError" => ~pageExists[item]
    /\ in_flight' = in_flight - 1
    /\ since_mut' = 0
    /\ pageExists' = IF outcome = "ok" THEN [pageExists EXCEPT ![item] = FALSE]
                     ELSE pageExists
    /\ successful_deletions' = IF classify_delete(outcome) = "success"
                               THEN successful_deletions + 1 ELSE successful_deletions
    /\ failed_deletions' = IF classify_delete(outcome) = "failed"
                           THEN failed_deletions + 1 ELSE failed_deletions
    /\ not_found' = IF outcome = "NoPageError" THEN not_found + 1 ELSE not_found
    /\ item' = NoItem
    /\ pc' = "commit"
    /\ UNCHANGED <<searchvars, lrvars, oldidvars, script, titles, workers, handled, pageText, last_gap,
                   mutated, dequeued, menu, deletion_queue, delmaps, delscan, others>>

\* process_deletion_queue returns once the queue is empty; phase_2 prints
\* the two counters
process_deletion_done ==
    /\ script = "delete_pages"
    /\ pc = "commit"
    /\ deletion_queue = <<>>
    /\ pc' = "p2_report"
    /\ UNCHANGED <<searchvars, lrvars, oldidvars, script, titles, workers, handled, store, commit, menu,
                   deletion_queue, delmaps, delscan, delcount, others>>

\* phase_2 returns True to main; its locals end with it
phase_2_return ==
    /\ script = "delete_pages"
    /\ pc = "p2_report"
    /\ pc' = "menu"
    /\ successful_deletions' = 0
    /\ failed_deletions' = 0
    /\ mutated' = {}
    /\ dequeued' = 0
    /\ not_found' = 0
    /\ since_mut' = NoMutation
    /\ last_gap' = NoMutation
    /\ UNCHANGED <<searchvars, lrvars, oldidvars, script, titles, workers, handled, store, item, in_flight,
                   menu, deletion_queue, delmaps, delscan, others>>

\* another user of the wiki deletes a page the run looks at: before the
\* scan's first task looks at a page, between the scan and the commit, or
\* while the committer's delete of that page is under way
EnvDelete(t) ==
    /\ \/ /\ pc = "p1_collect"
          /\ \A i \in DOMAIN workers : workers[i].pc = "ready"
          /\ t \in Range(titles)
       \/ pc = "p2_confirm" /\ t \in Range(deletion_queue)
       \/ pc = "deleting" /\ t = item
    /\ pageExists[t]
    /\ pageExists' = [pageExists EXCEPT ![t] = FALSE]
    /\ UNCHANGED <<searchvars, lrvars, oldidvars, sched, pageText, commit, menu, deletion_queue, delmaps,
                   delscan, delcount, others>>

NextDelete ==
    \/ \E c \in {"1", "2", "3", "4"} : main_menu(c)
    \/ \E found \in BOOLEAN, ls \in FileContents : phase_1_submit(found, ls)
    \/ \E i \in DOMAIN workers :
          /\ script = "delete_pages"
          /\ \E ex \in ExistsAnswers(titles[i]),
                failAt \in {NoFail} \cup (0..Len(History[titles[i]])),
                skipped \in SUBSET (DOMAIN Backlinks[titles[i]]),
                fault \in Faults :
                process_page_check(i, ex, failAt, skipped, fault)
    \/ \E i \in DOMAIN workers, fault \in Faults : process_page_put(i, fault)
    \/ \E i \in DOMAIN workers : phase_1_collect(i)
    \/ phase_1_pool_exit
    \/ \E saved \in BOOLEAN : phase_1_save(saved)
    \/ \E parsed \in BOOLEAN : phase_2_load(parsed)
    \/ \E answer \in ConfirmAnswers : phase_2_confirm(answer)
    \/ \E ex \in {"yes", "no", "raise"} : process_deletion_take(ex)
    \/ \E outcome \in DeleteOutcomes : process_deletion_return(outcome)
    \/ process_deletion_done
    \/ phase_2_return
    \/ \E t \in Titles : script = "delete_pages" /\ EnvDelete(t)

SpecDelete == InitDelete /\ [][NextDelete]_vars

\* the operator goes through the menu twice, no artifact of an earlier
\* process being there
InitRescan ==
    /\ script = "delete_pages"
    /\ pc = "menu"
    /\ titles = <<>>
    /\ workers = <<>>
    /\ handled = <<>>
    /\ StoreDefault
    /\ CommitIdle
    /\ DeleteIdle
    /\ runs = 2
    /\ json_file = NoArtifact
    /\ OthersIdle
    /\ CacheIdle
    /\ MatchIdle
    /\ MainIdle
    /\ GateIdle

\* both times the operator chooses phase 1
NextRescan ==
    \/ main_menu("1")
    \/ \E found \in BOOLEAN, ls \in FileContents : phase_1_submit(found, ls)
    \/ \E i \in DOMAIN workers :
          \E ex \in ExistsAnswers(titles[i]),
             failAt \in {NoFail} \cup (0..Len(History[titles[i]])),
             skipped \in SUBSET (DOMAIN Backlinks[titles[i]]),
             fault \in Faults :
             process_page_check(i, ex, failAt, skipped, fault)
    \/ \E i \in DOMAIN workers, fault \in Faults : process_page_put(i, fault)
    \/ \E i \in DOMAIN workers : phase_1_collect(i)
    \/ phase_1_pool_exit
    \/ \E saved \in BOOLEAN : phase_1_save(saved)
    \/ \E t \in Titles : EnvDelete(t)

SpecRescan == InitRescan /\ [][NextRescan]_vars

----------------------------------------------------------------------------
(* findandreplace and multifindandreplace *)

\* Page texts are sequences of fragments; a mapping replaces every occurrence
\* of a fragment.  "cw", "cw2", "tw" stand for the three link phrases of
\* findandreplace.main and "sw", "wt" for their replacements; "hc" stands for
\* the recipes heading followed directly by the crafting template, "hxc" for
\* the heading with the misspelt sentence and "hsc" for the heading with the
\* sentence, the patterns and replacement of multifindandreplace.main.
mappings ==
    [findandreplace |-> <<<<"cw", "sw">>, <<"cw2", "sw">>, <<"tw", "wt">>>>,
     multifindandreplace |-> <<<<"hc", "hsc">>, <<"hxc", "hsc">>>>]

FRScripts == {"findandreplace", "multifindandreplace"}

Replace(text, phrase, replacement) ==
    [j \in DOMAIN text |-> IF text[j] = phrase THEN replacement ELSE text[j]]

\* the loop `for phrase, replacement in mappings.items()`, in dict order
apply_mappings(text, m) ==
    LET F[j \in 0..Len(m)] ==
            IF j = 0 THEN text ELSE Replace(F[j - 1], m[j][1], m[j][2])
    IN  F[Len(m)]

needs_edit_always(text, m) == TRUE

\* `if text != original_text` (`if new_text != original_text`)
needs_edit(text, m) == apply_mappings(text, m) # text

\* the texts a page of the wiki starts with: one the mappings leave alone and
\* one they change
TextChoices(sc) ==
    IF sc = "findandreplace" THEN {<<"x">>, <<"cw", "x">>} ELSE {<<"x">>, <<"hc">>}

\* sorted(): titles compare as strings
TitleRank == [t \in Titles |-> IF t = "A" THEN 1 ELSE IF t = "B" THEN 2 ELSE 3]

as_inserted(q) == q

sorted(q) == SortSeq(q, LAMBDA a, b : TitleRank[a] < TitleRank[b])

InitFR ==
    /\ script \in FRScripts
    /\ pc = "fr_start"
    /\ titles = <<>>
    /\ workers = <<>>
    /\ handled = <<>>
    /\ pageExists = [t \in Titles |-> TRUE]
    /\ pageText \in [Titles -> TextChoices(script)]
    /\ CommitIdle
    /\ DeleteIdle
    /\ runs = 0
    /\ json_file = NoArtifact
    /\ OthersIdle
    /\ CacheIdle
    /\ MatchIdle
    /\ MainIdle
    /\ GateIdle

\* main: search_results.txt is read and every line, stripped, is submitted to
\* the pool; FileNotFoundError is caught at the end of main
fr_read_pages(found, ls) ==
    /\ script \in FRScripts
    /\ pc = "fr_start"
    /\ IF found
       THEN /\ titles' = stripped(ls)
            /\ workers' = [i \in DOMAIN ls |-> [pc |-> "ready", out |-> NoItem]]
            /\ handled' = [i \in DOMAIN ls |-> 0]
            /\ pc' = "fr_scan"
       ELSE /\ pc' = "file_not_found"
            /\ UNCHANGED <<titles, workers, handled>>
    /\ UNCHANGED <<searchvars, lrvars, oldidvars, script, store, commit, menu, deletion_queue, delmaps,
                   delscan, delcount, others>>

\* find_and_replace in a pool thread: the title if the page exists and the
\* mappings change its text, None otherwise and on every exception
find_and_replace(i, ex) ==
    LET t == titles[i]
        text == pageText[t]
    IN  /\ script \in FRScripts
        /\ pc = "fr_scan"
        /\ workers[i].pc = "ready"
        /\ ex \in ExistsAnswers(t)
        /\ workers' = [workers EXCEPT ![i] =
                [pc |-> "done",
                 out |-> IF ex = "yes" /\ needs_edit(text, mappings[script])
                         THEN t ELSE NoItem]]
        /\ UNCHANGED <<searchvars, lrvars, oldidvars, script, pc, titles, handled, store, commit, menu,
                       deletion_queue, delmaps, delscan, delcount, others>>

\* main: one iteration of the as_completed loop, which queues a result
fr_collect(i) ==
    /\ script \in FRScripts
    /\ pc = "fr_scan"
    /\ i \in Futures(titles)
    /\ workers[i].pc = "done"
    /\ handled[i] = 0
    /\ handled' = [handled EXCEPT ![i] = @ + 1]
    /\ edit_queue' = IF workers[i].out # NoItem
                     THEN Append(edit_queue, workers[i].out) ELSE edit_queue
    /\ UNCHANGED <<searchvars, lrvars, oldidvars, script, pc, titles, workers, store, commit, menu,
                   deletion_queue, delmaps, delscan, delcount, queue,
                   pages_to_edit_queue, redirect_dict, unique_redirect_dict, gate_in,
                   gate_out>>

\* main after the `with` block: sort the queue, clear it, refill it, and
\* enter process_edit_queue
fr_sort ==
    /\ script \in FRScripts
    /\ pc = "fr_scan"
    /\ pool_block_done(workers, [i \in Futures(titles) |-> handled[i]])
    /\ edit_queue' = sorted(edit_queue)
    /\ pc' = "fr_commit"
    /\ UNCHANGED <<searchvars, lrvars, oldidvars, script, titles, workers, handled, store, commit, menu,
                   deletion_queue, delmaps, delscan, delcount, queue,
                   pages_to_edit_queue, redirect_dict, unique_redirect_dict, gate_in,
                   gate_out>>

\* process_edit_queue: get the next title; if the page exists and the
\* mappings change its text as read now, call page.save; an exception of the
\* read is printed and the loop goes on
process_edit_take(ex) ==
    LET page_title == Head(edit_queue)
        text == pageText[page_title]
    IN  /\ script \in FRScripts
        /\ committer_ready("fr_commit")
        /\ edit_queue # <<>>
        /\ ex \in ExistsAnswers(page_title)
        /\ edit_queue' = Tail(edit_queue)
        /\ dequeued' = dequeued + 1
        /\ IF ex = "yes" /\ needs_edit(text, mappings[script])
           THEN /\ pc' = "fr_saving"
                /\ item' = page_title
                /\ in_flight' = in_flight + 1
                /\ last_gap' = since_mut
                /\ mutated' = mutated \cup {page_title}
                /\ UNCHANGED not_found
           ELSE /\ not_found' = IF ex = "no" THEN not_found + 1 ELSE not_found
                /\ UNCHANGED <<pc, item, in_flight, last_gap, mutated>>
        /\ UNCHANGED <<searchvars, lrvars, oldidvars, script, titles, workers, handled, store, since_mut,
                       menu, deletion_queue, delmaps, delscan, delcount, queue,
                       pages_to_edit_queue, redirect_dict, unique_redirect_dict,
                       gate_in, gate_out>>

\* process_edit_queue: page.save returns or raises; no sleep follows
process_edit_return(saved) ==
    /\ script \in FRScripts
    /\ pc = "fr_saving"
    /\ in_flight' = in_flight - 1
    /\ since_mut' = 0
    /\ pageText' = IF saved
                   THEN [pageText EXCEPT ![item] = apply_mappings(@, mappings[script])]
                   ELSE pageText
    /\ item' = NoItem
    /\ pc' = "fr_commit"
    /\ UNCHANGED <<searchvars, lrvars, oldidvars, script, titles, workers, handled, pageExists, last_gap,
                   mutated, dequeued, not_found, menu, deletion_queue, delmaps, delscan,
                   delcount, others>>

\* process_edit_queue returns once the queue is empty, and main with it
process_edit_done ==
    /\ script \in FRScripts
    /\ pc = "fr_commit"
    /\ edit_queue = <<>>
    /\ pc' = "done"
    /\ UNCHANGED <<searchvars, lrvars, oldidvars, script, titles, workers, handled, store, commit, menu,
                   deletion_queue, delmaps, delscan, delcount, others>>

\* another user of the wiki deletes a page that waits in the edit queue
EnvDeleteQueued(t) ==
    /\ script \in FRScripts
    /\ pc = "fr_commit"
    /\ t \in Range(edit_queue)
    /\ pageExists[t]
    /\ pageExists' = [pageExists EXCEPT ![t] = FALSE]
    /\ UNCHANGED <<searchvars, lrvars, oldidvars, sched, pageText, commit, menu, deletion_queue, delmaps,
                   delscan, delcount, others>>

\* another user of the wiki rewrites a page that waits in the edit queue, and
\* the new text holds none of the phrases
EnvEditQueued(t) ==
    /\ script \in FRScripts
    /\ pc = "fr_commit"
    /\ t \in Range(edit_queue)
    /\ pageExists[t]
    /\ pageText[t] # <<"x">>
    /\ pageText' = [pageText EXCEPT ![t] = <<"x">>]
    /\ UNCHANGED <<searchvars, lrvars, oldidvars, sched, pageExists, commit, menu, deletion_queue,
                   delmaps, delscan, delcount, others>>

NextFR ==
    \/ \E found \in BOOLEAN, ls \in FileContents : fr_read_pages(found, ls)
    \/ \E i \in DOMAIN workers, ex \in {"yes", "no", "raise"} : find_and_replace(i, ex)
    \/ \E i \in DOMAIN workers : fr_collect(i)
    \/ fr_sort
    \/ \E ex \in {"yes", "no", "raise"} : process_edit_take(ex)
    \/ \E saved \in BOOLEAN : process_edit_return(saved)
    \/ process_edit_done
    \/ \E t \in Titles : EnvDeleteQueued(t)

SpecFR == InitFR /\ [][NextFR]_vars

----------------------------------------------------------------------------
(* languagepages *)

\* time.sleep(8) after a successful save
LanguagePagesSleep == 8

InitLP ==
    /\ script = "languagepages"
    /\ pc = "lp_scan"
    /\ titles \in SeqsUpTo(Titles, MaxTitles)
    /\ workers = [i \in DOMAIN titles |-> [pc |-> "ready", out |-> NoItem]]
    /\ handled = [i \in DOMAIN titles |-> 0]
    /\ StoreDefault
    /\ CommitIdle
    /\ DeleteIdle
    /\ runs = 0
    /\ json_file = NoArtifact
    /\ OthersIdle
    /\ CacheIdle
    /\ MatchIdle
    /\ MainIdle
    /\ GateIdle

\* filter_and_check_page in a pool thread.  resp is what the reads answer:
\* "keyword" (the text holds a skip keyword), "taken" (the language page
\* exists already), "free", or "raise"; only "free" returns the title
filter_and_check_page(i, resp) ==
    /\ script = "languagepages"
    /\ pc = "lp_scan"
    /\ workers[i].pc = "ready"
    /\ workers' = [workers EXCEPT ![i] =
            [pc |-> "done", out |-> IF resp = "free" THEN titles[i] ELSE NoItem]]
    /\ UNCHANGED <<searchvars, lrvars, oldidvars, script, pc, titles, handled, store, commit, menu,
                   deletion_queue, delmaps, delscan, delcount, others>>

\* main: one iteration of the as_completed loop
lp_collect(i) ==
    /\ script = "languagepages"
    /\ pc = "lp_scan"
    /\ i \in Futures(titles)
    /\ workers[i].pc = "done"
    /\ handled[i] = 0
    /\ handled' = [handled EXCEPT ![i] = @ + 1]
    /\ queue' = IF workers[i].out # NoItem THEN Append(queue, workers[i].out) ELSE queue
    /\ UNCHANGED <<searchvars, lrvars, oldidvars, script, pc, titles, workers, store, commit, menu,
                   deletion_queue, delmaps, delscan, delcount, edit_queue,
                   pages_to_edit_queue, redirect_dict, unique_redirect_dict, gate_in,
                   gate_out>>

lp_pool_exit ==
    /\ script = "languagepages"
    /\ pc = "lp_scan"
    /\ pool_block_done(workers, [i \in Futures(titles) |-> handled[i]])
    /\ pc' = "lp_commit"
    /\ UNCHANGED <<searchvars, lrvars, oldidvars, script, titles, workers, handled, store, commit, menu,
                   deletion_queue, delmaps, delscan, delcount, others>>

\* main's for loop calls process_article for the next element of the list.
\* resp is what process_article meets before the save: "save" (the article
\* file is there), "nofile", or "raise" (a read raised)
process_article_take(resp) ==
    /\ script = "languagepages"
    /\ committer_ready("lp_commit")
    /\ dequeued < Len(queue)
    /\ dequeued' = dequeued + 1
    /\ IF resp = "save"
       THEN /\ pc' = "lp_saving"
            /\ item' = queue[dequeued + 1]
            /\ in_flight' = in_flight + 1
            /\ last_gap' = since_mut
            /\ mutated' = mutated \cup {queue[dequeued + 1]}
       ELSE UNCHANGED <<pc, item, in_flight, last_gap, mutated>>
    /\ UNCHANGED <<searchvars, lrvars, oldidvars, script, titles, workers, handled, store, since_mut,
                   not_found, menu, deletion_queue, delmaps, delscan, delcount, others>>

\* new_page.save returns, then time.sleep(8); or it raises, and the except
\* clause prints without sleeping
process_article_return(saved) ==
    /\ script = "languagepages"
    /\ pc = "lp_saving"
    /\ in_flight' = in_flight - 1
    /\ since_mut' = IF saved THEN LanguagePagesSleep ELSE 0
    /\ item' = NoItem
    /\ pc' = "lp_commit"
    /\ UNCHANGED <<searchvars, lrvars, oldidvars, script, titles, workers, handled, store, last_gap,
                   mutated, dequeued, not_found, menu, deletion_queue, delmaps, delscan,
                   delcount, others>>

process_article_done ==
    /\ script = "languagepages"
    /\ pc = "lp_commit"
    /\ dequeued = Len(queue)
    /\ pc' = "done"
    /\ UNCHANGED <<searchvars, lrvars, oldidvars, script, titles, workers, handled, store, commit, menu,
                   deletion_queue, delmaps, delscan, delcount, others>>

NextLP ==
    \/ \E i \in DOMAIN workers, resp \in {"keyword", "taken", "free", "raise"} :
            filter_and_check_page(i, resp)
    \/ \E i \in DOMAIN workers : lp_collect(i)
    \/ lp_pool_exit
    \/ \E resp \in {"save", "nofile", "raise"} : process_article_take(resp)
    \/ \E saved \in BOOLEAN : process_article_return(saved)
    \/ process_article_done

SpecLP == InitLP /\ [][NextLP]_vars

----------------------------------------------------------------------------
(* languageheader *)

\* the language codes whose subpages are checked, in list order; 'th' is
\* listed twice.  Two of the seventeen codes are kept.
language_codes == <<"tr", "th", "th">>

\* time.sleep(6) after a save
LanguageHeaderSleep == 6

InitLH ==
    /\ script = "languageheader"
    /\ pc = "lh_scan"
    /\ titles \in SeqsUpTo(Titles, MaxTitles)
    /\ workers = [i \in DOMAIN titles |-> [pc |-> "ready", out |-> <<>>, raised |-> FALSE]]
    /\ handled = [i \in DOMAIN titles |-> 0]
    /\ StoreDefault
    /\ CommitIdle
    /\ DeleteIdle
    /\ runs = 0
    /\ json_file = NoArtifact
    /\ OthersIdle
    /\ CacheIdle
    /\ MatchIdle
    /\ MainIdle
    /\ GateIdle

\* the subpages of a title whose header differs, in the order of language_codes
pages_to_edit(t, differing) ==
    LET F[j \in 0..Len(language_codes)] ==
            IF j = 0 THEN <<>>
            ELSE IF language_codes[j] \in differing
                 THEN Append(F[j - 1], <<t, language_codes[j]>>)
                 ELSE F[j - 1]
    IN  F[Len(language_codes)]

\* check_page_for_edits in a pool thread.  page.exists() is called before the
\* try: its exception leaves the function.  Inside the try, resp is "raise",
\* "noheader", or "checked" with the set of language codes whose subpage
\* exists with a different header
check_page_for_edits(i, ex, resp, differing) ==
    /\ script = "languageheader"
    /\ pc = "lh_scan"
    /\ workers[i].pc = "ready"
    /\ workers' = [workers EXCEPT ![i] =
            [pc |-> "done",
             out |-> IF ex = "yes" /\ resp = "checked"
                     THEN pages_to_edit(titles[i], differing) ELSE <<>>,
             raised |-> (ex = "raise")]]
    /\ UNCHANGED <<searchvars, lrvars, oldidvars, script, pc, titles, handled, store, commit, menu,
                   deletion_queue, delmaps, delscan, delcount, others>>

\* main: one iteration of the as_completed loop; future.result() re-raises
\* the exception of the task, which nothing catches
lh_collect(i) ==
    /\ script = "languageheader"
    /\ pc = "lh_scan"
    /\ i \in Futures(titles)
    /\ workers[i].pc = "done"
    /\ handled[i] = 0
    /\ handled' = [handled EXCEPT ![i] = @ + 1]
    /\ IF workers[i].raised
       THEN /\ pc' = "scan_crashed"
            /\ UNCHANGED pages_to_edit_queue
       ELSE /\ pages_to_edit_queue' = pages_to_edit_queue \o workers[i].out
            /\ UNCHANGED pc
    /\ UNCHANGED <<searchvars, lrvars, oldidvars, script, titles, workers, store, commit, menu,
                   deletion_queue, delmaps, delscan, delcount, edit_queue, queue,
                   redirect_dict, unique_redirect_dict, gate_in, gate_out>>

\* main after the pool: process_queue if anything was found
lh_pool_exit ==
    /\ script = "languageheader"
    /\ pc = "lh_scan"
    /\ pool_block_done(workers, [i \in Futures(titles) |-> handled[i]])
    /\ pc' = IF pages_to_edit_queue # <<>> THEN "lh_commit" ELSE "done"
    /\ UNCHANGED <<searchvars, lrvars, oldidvars, script, titles, workers, handled, store, commit, menu,
                   deletion_queue, delmaps, delscan, delcount, others>>

\* process_queue: the next subpage of the list.  resp is what the re-read
\* gives: "differs" (the header is replaced and saved), "same", or "raise"
process_queue_take(resp) ==
    /\ script = "languageheader"
    /\ committer_ready("lh_commit")
    /\ dequeued < Len(pages_to_edit_queue)
    /\ dequeued' = dequeued + 1
    /\ IF resp = "differs"
       THEN /\ pc' = "lh_saving"
            /\ item' = pages_to_edit_queue[dequeued + 1][1]
            /\ in_flight' = in_flight + 1
            /\ last_gap' = since_mut
            /\ mutated' = mutated \cup {pages_to_edit_queue[dequeued + 1][1]}
            /\ UNCHANGED since_mut
       ELSE /\ since_mut' = slept(since_mut, rate_limit(FALSE, LanguageHeaderSleep))
            /\ UNCHANGED <<pc, item, in_flight, last_gap, mutated>>
    /\ UNCHANGED <<searchvars, lrvars, oldidvars, script, titles, workers, handled, store, not_found, menu,
                   deletion_queue, delmaps, delscan, delcount, others>>

\* subpage.save returns, then time.sleep(6); or it raises into the except
process_queue_return(saved) ==
    /\ script = "languageheader"
    /\ pc = "lh_saving"
    /\ in_flight' = in_flight - 1
    /\ since_mut' = rate_limit(saved, LanguageHeaderSleep)
    /\ item' = NoItem
    /\ pc' = "lh_commit"
    /\ UNCHANGED <<searchvars, lrvars, oldidvars, script, titles, workers, handled, store, last_gap,
                   mutated, dequeued, not_found, menu, deletion_queue, delmaps, delscan,
                   delcount, others>>

process_queue_done ==
    /\ script = "languageheader"
    /\ pc = "lh_commit"
    /\ dequeued = Len(pages_to_edit_queue)
    /\ pc' = "done"
    /\ UNCHANGED <<searchvars, lrvars, oldidvars, script, titles, workers, handled, store, commit, menu,
                   deletion_queue, delmaps, delscan, delcount, others>>

NextLH ==
    \/ \E i \in DOMAIN workers, ex \in {"yes", "no", "raise"},
          resp \in {"raise", "noheader", "checked"}, differing \in SUBSET {"tr", "th"} :
            check_page_for_edits(i, ex, resp, differing)
    \/ \E i \in DOMAIN workers : lh_collect(i)
    \/ lh_pool_exit
    \/ \E resp \in {"differs", "same", "raise"} : process_queue_take(resp)
    \/ \E saved \in BOOLEAN : process_queue_return(saved)
    \/ process_queue_done

SpecLH == InitLH /\ [][NextLH]_vars

----------------------------------------------------------------------------
(* languageredirects *)

illegal_chars ==
    {"{", "}", "[", "]", "<", ">", "|", ":", "?", "*", "\"", "\\", "/", "#", "@", "&", "%"}

\* a title is a sequence of characters
has_illegal_chars(title) == \E j \in DOMAIN title : title[j] \in illegal_chars

\* the values a page's {{Title|...}} line can hold
TitleValues == {<<"T">>, <<"U">>, <<"T", ":">>}

\* time.sleep(10) after a save
LanguageRedirectsSleep == 10

InitLR ==
    /\ script = "languageredirects"
    /\ pc = "lr_scan"
    /\ titles \in SeqsUpTo(Titles, MaxTitles)
    /\ workers = [i \in DOMAIN titles |-> [pc |-> "ready", raised |-> FALSE]]
    /\ handled = [i \in DOMAIN titles |-> 0]
    /\ StoreDefault
    /\ CommitIdle
    /\ DeleteIdle
    /\ runs = 0
    /\ json_file = NoArtifact
    /\ OthersIdle
    /\ CacheIdle
    /\ MatchIdle
    /\ MainIdle
    /\ GateIdle

\* process_line in a pool thread; there is no try.  ex answers page.exists();
\* resp is "raise" (page.text raised), "notitle", or "title" with the value of
\* the first {{Title|...}} line, stored in the shared dict unless it has an
\* illegal character
process_line(i, ex, resp, title_value) ==
    /\ script = "languageredirects"
    /\ pc = "lr_scan"
    /\ workers[i].pc = "ready"
    /\ workers' = [workers EXCEPT ![i] =
            [pc |-> "done", raised |-> (ex = "raise" \/ (ex = "yes" /\ resp = "raise"))]]
    /\ redirect_dict' =
            IF ex = "yes" /\ resp = "title" /\ ~has_illegal_chars(title_value)
            THEN DictSet(redirect_dict, titles[i], title_value)
            ELSE redirect_dict
    /\ UNCHANGED <<searchvars, lrvars, oldidvars, script, pc, titles, handled, store, commit, menu,
                   deletion_queue, delmaps, delscan, delcount, edit_queue, queue,
                   pages_to_edit_queue, unique_redirect_dict, gate_in, gate_out>>

\* main: one iteration of the as_completed loop; future.result() re-raises
lr_collect(i) ==
    /\ script = "languageredirects"
    /\ pc = "lr_scan"
    /\ i \in Futures(titles)
    /\ workers[i].pc = "done"
    /\ handled[i] = 0
    /\ handled' = [handled EXCEPT ![i] = @ + 1]
    /\ pc' = IF workers[i].raised THEN "scan_crashed" ELSE pc
    /\ UNCHANGED <<searchvars, lrvars, oldidvars, script, titles, workers, store, commit, menu,
                   deletion_queue, delmaps, delscan, delcount, others>>

ValueCountIgnored(d, v) == 1

\* how many entries of the dict hold the value v
ValueCount(d, v) == Cardinality({j \in DOMAIN d : d[j][2] = v})

\* main after the pool: keep the entries whose value no other entry holds
lr_filter ==
    /\ script = "languageredirects"
    /\ pc = "lr_scan"
    /\ pool_block_done(workers, [i \in Futures(titles) |-> handled[i]])
    /\ unique_redirect_dict' =
            Pick(redirect_dict,
                 {j \in DOMAIN redirect_dict : ValueCount(redirect_dict, redirect_dict[j][2]) = 1})
    /\ pc' = "lr_commit"
    /\ UNCHANGED <<searchvars, lrvars, oldidvars, script, titles, workers, handled, store, commit, menu,
                   deletion_queue, delmaps, delscan, delcount, edit_queue, queue,
                   pages_to_edit_queue, redirect_dict, gate_in, gate_out>>

create_redirect_skips_illegal_only(target, ex) == has_illegal_chars(target)

\* create_redirect returns without a save: an illegal character in the
\* target, or redirect_page.exists() answered yes
create_redirect_skips(target, ex) == has_illegal_chars(target) \/ ex = "yes"

\* main's loop calls create_redirect for the next entry; nothing catches an
\* exception.  ex answers redirect_page.exists(): only "no" leads to a save
create_redirect_take(ex) ==
    LET target == unique_redirect_dict[dequeued + 1][2]
    IN  /\ script = "languageredirects"
        /\ committer_ready("lr_commit")
        /\ dequeued < Len(unique_redirect_dict)
        /\ dequeued' = dequeued + 1
        /\ redirect_page_exists' = IF has_illegal_chars(target) THEN "not asked" ELSE ex
        /\ IF create_redirect_skips(target, ex)
           THEN UNCHANGED <<pc, item, in_flight, last_gap, mutated>>
           ELSE IF ex = "raise"
           THEN /\ pc' = "commit_crashed"
                /\ UNCHANGED <<item, in_flight, last_gap, mutated>>
           ELSE /\ pc' = "lr_saving"
                /\ item' = target
                /\ in_flight' = in_flight + 1
                /\ last_gap' = since_mut
                /\ mutated' = mutated \cup {target}
        /\ UNCHANGED <<searchvars, oldidvars, script, titles, workers, handled, store, since_mut,
                       not_found, menu, deletion_queue, delmaps, delscan, delcount,
                       others>>

\* redirect_page.save returns, then time.sleep(10); or it raises out of main
create_redirect_return(saved) ==
    /\ script = "languageredirects"
    /\ pc = "lr_saving"
    /\ in_flight' = in_flight - 1
    /\ since_mut' = IF saved THEN LanguageRedirectsSleep ELSE 0
    /\ item' = NoItem
    /\ pc' = IF saved THEN "lr_commit" ELSE "commit_crashed"
    /\ UNCHANGED <<searchvars, lrvars, oldidvars, script, titles, workers, handled, store, last_gap,
                   mutated, dequeued, not_found, menu, deletion_queue, delmaps, delscan,
                   delcount, others>>

create_redirect_done ==
    /\ script = "languageredirects"
    /\ pc = "lr_commit"
    /\ dequeued = Len(unique_redirect_dict)
    /\ pc' = "done"
    /\ UNCHANGED <<searchvars, lrvars, oldidvars, script, titles, workers, handled, store, commit, menu,
                   deletion_queue, delmaps, delscan, delcount, others>>

NextLR ==
    \/ \E i \in DOMAIN workers, ex \in {"yes", "no", "raise"},
          resp \in {"raise", "notitle", "title"}, title_value \in TitleValues :
            process_line(i, ex, resp, title_value)
    \/ \E i \in DOMAIN workers : lr_collect(i)
    \/ lr_filter
    \/ \E ex \in {"yes", "no", "raise"} : create_redirect_take(ex)
    \/ \E saved \in BOOLEAN : create_redirect_return(saved)
    \/ create_redirect_done

SpecLR == InitLR /\ [][NextLR]_vars

----------------------------------------------------------------------------
(* redirectfixer *)

\* A CSV column is the sequence of its parts between dots: <<"Base", "B">> is
\* "Base.B" and <<>> the blank column.
EXCLUDED_STRINGS ==
    {<<"See [[#Variants|Variants]]">>, <<"Base", "VHS_Home">>, <<"Base", "VHS_Retail">>,
     <<"Base", "Disc_Retail">>}

\* `excluded in column`: the parts of e occur in a row in column
Contains(column, e) ==
    \E j \in 0..(Len(column) - Len(e)) : \A k \in 1..Len(e) : column[j + k] = e[k]

skip_column(column) == column = <<>> \/ \E e \in EXCLUDED_STRINGS : Contains(column, e)

\* column.split('.')[-1]
last_part(column) == column[Len(column)]

Columns == {<<>>, <<"A">>, <<"Base", "B">>, <<"Base", "VHS_Home">>}

\* time.sleep(6) after a save
RedirectFixerSleep == 6

\* the columns after the first of every row, in file order
InitRF ==
    /\ script = "redirectfixer"
    /\ pc = "rf_commit"
    /\ titles \in SeqsUpTo(Columns, MaxTitles)
    /\ workers = <<>>
    /\ handled = <<>>
    /\ StoreDefault
    /\ CommitIdle
    /\ DeleteIdle
    /\ runs = 0
    /\ json_file = NoArtifact
    /\ OthersIdle
    /\ CacheIdle
    /\ MatchIdle
    /\ MainIdle
    /\ GateIdle

\* process_csv: the next column.  There is no try: an exception of page.text,
\* page.exists() or page.save leaves process_csv and main.  resp is what the
\* reads answer: "raise", "absent" (the page is created), "stale" (an
\* existing redirect with another text, replaced) or "keep"
process_csv_take(resp) ==
    LET column == titles[dequeued + 1]
    IN  /\ script = "redirectfixer"
        /\ committer_ready("rf_commit")
        /\ dequeued < Len(titles)
        /\ dequeued' = dequeued + 1
        /\ IF skip_column(column) \/ resp = "keep"
           THEN /\ since_mut' = slept(since_mut, rate_limit(FALSE, RedirectFixerSleep))
                /\ UNCHANGED <<pc, item, in_flight, last_gap, mutated>>
           ELSE IF resp = "raise"
           THEN /\ pc' = "commit_crashed"
                /\ UNCHANGED <<item, in_flight, last_gap, mutated, since_mut>>
           ELSE /\ pc' = "rf_saving"
                /\ item' = last_part(column)
                /\ in_flight' = in_flight + 1
                /\ last_gap' = since_mut
                /\ mutated' = mutated \cup {last_part(column)}
                /\ UNCHANGED since_mut
        /\ UNCHANGED <<searchvars, lrvars, oldidvars, script, titles, workers, handled, store, not_found,
                       menu, deletion_queue, delmaps, delscan, delcount, others>>

\* page.save returns, then time.sleep(6); or it raises out of process_csv
process_csv_return(saved) ==
    /\ script = "redirectfixer"
    /\ pc = "rf_saving"
    /\ in_flight' = in_flight - 1
    /\ since_mut' = rate_limit(saved, RedirectFixerSleep)
    /\ item' = NoItem
    /\ pc' = IF saved THEN "rf_commit" ELSE "commit_crashed"
    /\ UNCHANGED <<searchvars, lrvars, oldidvars, script, titles, workers, handled, store, last_gap,
                   mutated, dequeued, not_found, menu, deletion_queue, delmaps, delscan,
                   delcount, others>>

process_csv_done ==
    /\ script = "redirectfixer"
    /\ pc = "rf_commit"
    /\ dequeued = Len(titles)
    /\ pc' = "done"
    /\ UNCHANGED <<searchvars, lrvars, oldidvars, script, titles, workers, handled, store, commit, menu,
                   deletion_queue, delmaps, delscan, delcount, others>>

NextRF ==
    \/ \E resp \in {"raise", "absent", "stale", "keep"} : process_csv_take(resp)
    \/ \E saved \in BOOLEAN : process_csv_return(saved)
    \/ process_csv_done

SpecRF == InitRF /\ [][NextRF]_vars

----------------------------------------------------------------------------
(* The scripts whose commit loop has no try: redirectfixer and languageredirects *)

InitBare == InitRF \/ InitLR

NextBare == NextRF \/ NextLR

\* the two scripts whose committer sleeps inside the branch that saved
InitRateLimit == InitLH \/ InitRF

NextRateLimit == NextLH \/ NextRF

SpecRateLimit == InitRateLimit /\ [][NextRateLimit]_vars

SpecBare == InitBare /\ [][NextBare]_vars

\* the committers that read the page again, on a wiki other users edit
\* between the scan and the commit
InitReread == InitFR \/ InitLH

NextReread ==
    \/ NextFR
    \/ \E t \in Titles : EnvEditQueued(t)
    \/ NextLH

SpecReread == InitReread /\ [][NextReread]_vars

----------------------------------------------------------------------------
(* oldid, started with option 2: the queue file *)

\* time.sleep(6) after a put
OldidSleep == 6

\* the titles revision_blacklist.txt can hold
Blacklists == {{}, {"B"}}

\* filter_queue: the items that are not blacklisted, in queue order
filter_queue(items, blacklist) == SelectSeq(items, LAMBDA t : t \notin blacklist)

InitOldid ==
    /\ script = "oldid"
    /\ pc = "oldid_start"
    /\ titles = <<>>
    /\ workers = <<>>
    /\ handled = <<>>
    /\ StoreDefault
    /\ CommitIdle
    /\ DeleteIdle
    /\ runs = 0
    /\ json_file = NoArtifact
    /\ OthersIdle
    /\ CacheIdle
    /\ MatchIdle
    /\ MainIdle
    /\ GateIdle

\* main, choice 2: load_queue_from_file puts every line, stripped, into the
\* queue; filter_queue drops the blacklisted titles and rewrites the queue
\* file with the others.  A missing file raises out of main
oldid_load(found, ls, blacklist) ==
    /\ script = "oldid"
    /\ pc = "oldid_start"
    /\ IF found
       THEN /\ oldid_q' = filter_queue(stripped(ls), blacklist)
            /\ titles' = oldid_q'
            /\ pc' = "oldid_commit"
       ELSE /\ pc' = "file_not_found"
            /\ UNCHANGED <<oldid_q, titles>>
    /\ UNCHANGED <<searchvars, lrvars, script, workers, handled, store, commit, menu,
                   deletion_queue, delmaps, delscan, delcount, others>>

\* what an iteration of process_queue comes to for a title: an exception of
\* a read, no revision with the template, a text the update leaves as it is,
\* or a put.  An empty title is no page name: pywikibot.Page(site, "") raises
\* ValueError, before the try, or else page.get() raises inside it
OldidAnswers(t) ==
    IF t = "" THEN {"invalid_title", "raise"}
    ELSE {"raise", "no_revision", "unchanged", "put"}

\* process_queue: q.get(), pbar.update(1), pywikibot.Page(site, page_title),
\* then the try block up to the put; the except clause prints the exception
\* and the loop goes on
oldid_process_queue_take(resp) ==
    LET page_title == Head(oldid_q)
    IN  /\ script = "oldid"
        /\ committer_ready("oldid_commit")
        /\ oldid_q # <<>>
        /\ resp \in OldidAnswers(page_title)
        /\ oldid_q' = Tail(oldid_q)
        /\ dequeued' = dequeued + 1
        /\ IF resp = "put"
           THEN /\ pc' = "oldid_saving"
                /\ item' = page_title
                /\ in_flight' = in_flight + 1
                /\ last_gap' = since_mut
                /\ mutated' = mutated \cup {page_title}
           ELSE /\ pc' = IF resp = "invalid_title" THEN "commit_crashed" ELSE pc
                /\ UNCHANGED <<item, in_flight, last_gap, mutated>>
        /\ UNCHANGED <<searchvars, lrvars, script, titles, workers, handled, store,
                       since_mut, not_found, menu, deletion_queue, delmaps, delscan,
                       delcount, others>>

\* process_queue: page.put returns, then time.sleep(6); or it raises into
\* the except clause
oldid_process_queue_return(saved) ==
    /\ script = "oldid"
    /\ pc = "oldid_saving"
    /\ in_flight' = in_flight - 1
    /\ since_mut' = rate_limit(saved, OldidSleep)
    /\ item' = NoItem
    /\ pc' = "oldid_commit"
    /\ UNCHANGED <<searchvars, lrvars, oldidvars, script, titles, workers, handled, store,
                   last_gap, mutated, dequeued, not_found, menu, deletion_queue, delmaps,
                   delscan, delcount, others>>

\* process_queue returns once q.empty()
oldid_process_queue_done ==
    /\ script = "oldid"
    /\ pc = "oldid_commit"
    /\ oldid_q = <<>>
    /\ pc' = "done"
    /\ UNCHANGED <<searchvars, lrvars, oldidvars, script, titles, workers, handled, store,
                   commit, menu, deletion_queue, delmaps, delscan, delcount, others>>

NextOldid ==
    \/ \E found \in BOOLEAN, ls \in FileContents, blacklist \in Blacklists :
            oldid_load(found, ls, blacklist)
    \/ \E resp \in {"invalid_title", "raise", "no_revision", "unchanged", "put"} : oldid_process_queue_take(resp)
    \/ \E saved \in BOOLEAN : oldid_process_queue_return(saved)
    \/ oldid_process_queue_done

SpecOldid == InitOldid /\ [][NextOldid]_vars

\* the two commit loops that take their items from a queue.Queue, with a
\* committer thread that keeps running and store calls that return or raise
InitCommitLoops == InitDelete \/ InitOldid

NextCommitLoops == NextDelete \/ NextOldid

CommitLoopsFairness ==
    /\ WF_vars(\E ex \in {"yes", "no", "raise"} : process_deletion_take(ex))
    /\ WF_vars(\E outcome \in DeleteOutcomes : process_deletion_return(outcome))
    /\ WF_vars(process_deletion_done)
    /\ WF_vars(\E resp \in {"invalid_title", "raise", "no_revision", "unchanged", "put"} :
                    oldid_process_queue_take(resp))
    /\ WF_vars(\E saved \in BOOLEAN : oldid_process_queue_return(saved))
    /\ WF_vars(oldid_process_queue_done)

SpecCommitLoops == InitCommitLoops /\ [][NextCommitLoops]_vars /\ CommitLoopsFairness

----------------------------------------------------------------------------
(* search: the wiki cache *)

\* the latest time the clock of a run reaches
MaxClock == 4
\* titles per batch (500 in update_wiki_cache)
batch_size == 1
\* is_cache_valid's default of 86400 seconds, in units of half a day
max_age_seconds == 2

is_file_valid_inclusive(file_exists, time, mod_time, max_age) ==
    IF ~file_exists THEN FALSE ELSE (time - mod_time) <= max_age

\* os.path.exists, then time.time() - os.path.getmtime against the maximum
is_file_valid(file_exists, time, mod_time, max_age) ==
    IF ~file_exists THEN FALSE ELSE (time - mod_time) < max_age

is_cache_valid(file_exists, time, mod_time) ==
    is_file_valid(file_exists, time, mod_time, max_age_seconds)

\* the slices all_titles[i:i+batch_size]
BatchCount(ts) == (Len(ts) + batch_size - 1) \div batch_size

Batch(ts, b) ==
    SubSeq(ts, (b - 1) * batch_size + 1,
           IF b * batch_size < Len(ts) THEN b * batch_size ELSE Len(ts))

\* load_batch: the dict {page.title(): page.text} of a batch
load_batch(batch) ==
    LET F[j \in 0..Len(batch)] ==
            IF j = 0 THEN <<>> ELSE DictSet(F[j - 1], batch[j], pageText[batch[j]])
    IN  F[Len(batch)]

dict_replaced(d, e) == e

\* d.update(e)
dict_update(d, e) ==
    LET F[j \in 0..Len(e)] == IF j = 0 THEN d ELSE DictSet(F[j - 1], e[j][1], e[j][2])
    IN  F[Len(e)]

stale_wiki_cache(stale) == stale

\* update_wiki_cache starts from an empty dict, whatever the stale file holds
fresh_wiki_cache(stale) == <<>>

\* a snapshot an earlier run persisted
OldCache ==
    [exists |-> TRUE, mtime |-> 0, data |-> <<<<"A", <<"old">>>>>>, complete |-> TRUE]

InitSearch ==
    /\ script = "search"
    /\ pc = "idle"
    /\ titles \in {ts \in SeqsUpTo(Titles, MaxTitles) :
                      \A a, b \in DOMAIN ts : ts[a] = ts[b] => a = b}
    /\ workers = <<>>
    /\ handled = <<>>
    /\ pageExists = [t \in Titles |-> TRUE]
    /\ pageText = [t \in Titles |-> <<t>>]
    /\ CommitIdle
    /\ DeleteIdle
    /\ runs = 0
    /\ json_file = NoArtifact
    /\ OthersIdle
    /\ GateIdle
    /\ now = 0
    /\ cache_file \in {NoCache, OldCache}
    /\ wiki_cache = <<>>
    /\ valid = FALSE
    /\ snapshot = [ok |-> cache_file.complete, at |-> 0]
    /\ MatchIdle
    /\ MainIdle

\* time passes
Tick ==
    /\ script = "search"
    /\ pc # "rebuilt"
    /\ now < MaxClock
    /\ now' = now + 1
    /\ UNCHANGED <<matchvars, lrvars, oldidvars, mainvars, sched, cache_file, wiki_cache, valid, snapshot, store, commit, menu,
                   deletion_queue, delmaps, delscan, delcount, others>>

\* main, step 4: is_cache_valid; a valid cache is loaded (json.load raises on
\* a file that is no complete JSON object), a stale one starts
\* update_wiki_cache, which submits one load_batch task per batch
main_step_4 ==
    /\ script = "search"
    /\ pc = "idle"
    /\ valid' = is_cache_valid(cache_file.exists, now, cache_file.mtime)
    /\ IF valid'
       THEN /\ pc' = IF cache_file.complete THEN "loaded" ELSE "load_failed"
            /\ wiki_cache' = IF cache_file.complete THEN cache_file.data ELSE <<>>
            /\ UNCHANGED <<workers, handled>>
       ELSE /\ pc' = "cache_pool"
            /\ wiki_cache' = fresh_wiki_cache(cache_file.data)
            /\ workers' = [b \in 1..BatchCount(titles) |->
                              [pc |-> "ready", out |-> <<>>, raised |-> FALSE]]
            /\ handled' = [b \in 1..BatchCount(titles) |-> 0]
    /\ UNCHANGED <<matchvars, lrvars, oldidvars, mainvars, script, titles, now, cache_file, snapshot, store, commit, menu,
                   deletion_queue, delmaps, delscan, delcount, others>>

\* load_batch in a pool thread: the batch's dict, or an exception of the fetch
load_batch_task(b, fetched) ==
    /\ script = "search"
    /\ pc = "cache_pool"
    /\ workers[b].pc = "ready"
    /\ workers' = [workers EXCEPT ![b] =
            [pc |-> "done",
             out |-> IF fetched THEN load_batch(Batch(titles, b)) ELSE <<>>,
             raised |-> ~fetched]]
    /\ UNCHANGED <<matchvars, lrvars, oldidvars, mainvars, script, pc, titles, handled, cachevars, store, commit, menu,
                   deletion_queue, delmaps, delscan, delcount, others>>

\* update_wiki_cache: one iteration of the as_completed loop; the exception
\* of a batch is printed
cache_collect(b) ==
    /\ script = "search"
    /\ pc = "cache_pool"
    /\ workers[b].pc = "done"
    /\ handled[b] = 0
    /\ handled' = [handled EXCEPT ![b] = @ + 1]
    /\ wiki_cache' = IF workers[b].raised THEN wiki_cache
                     ELSE dict_update(wiki_cache, workers[b].out)
    /\ UNCHANGED <<matchvars, lrvars, oldidvars, mainvars, script, pc, titles, workers, now, cache_file, valid, snapshot, store,
                   commit, menu, deletion_queue, delmaps, delscan, delcount, others>>

\* update_wiki_cache after the pool: save_cache opens the cache file for
\* writing, which truncates it, and dumps the mapping into it; "open_failed"
\* and "dump_failed" are the exceptions of the two steps
cache_save(outcome) ==
    /\ script = "search"
    /\ pc = "cache_pool"
    /\ pool_block_done(workers, handled)
    /\ cache_file' =
            IF outcome = "ok"
            THEN [exists |-> TRUE, mtime |-> now, data |-> wiki_cache, complete |-> TRUE]
            ELSE IF outcome = "dump_failed"
            THEN [exists |-> TRUE, mtime |-> now, data |-> <<>>, complete |-> FALSE]
            ELSE cache_file
    /\ snapshot' = IF outcome = "ok" THEN [ok |-> TRUE, at |-> now] ELSE snapshot
    /\ pc' = IF outcome = "ok" THEN "rebuilt" ELSE "rebuild_failed"
    /\ UNCHANGED <<matchvars, lrvars, oldidvars, mainvars, script, titles, workers, handled, now, wiki_cache, valid, store,
                   commit, menu, deletion_queue, delmaps, delscan, delcount, others>>

\* the run ends; the script is started again later
search_run_ends ==
    /\ script = "search"
    /\ pc \in {"loaded", "load_failed", "rebuilt", "rebuild_failed"}
    /\ pc' = "idle"
    /\ workers' = <<>>
    /\ handled' = <<>>
    /\ wiki_cache' = <<>>
    /\ UNCHANGED <<matchvars, lrvars, oldidvars, mainvars, script, titles, now, cache_file, valid, snapshot, store, commit,
                   menu, deletion_queue, delmaps, delscan, delcount, others>>

NextSearch ==
    \/ Tick
    \/ main_step_4
    \/ \E b \in DOMAIN workers, fetched \in BOOLEAN : load_batch_task(b, fetched)
    \/ \E b \in DOMAIN workers : cache_collect(b)
    \/ \E outcome \in {"ok", "open_failed", "dump_failed"} : cache_save(outcome)
    \/ search_run_ends

SpecSearch == InitSearch /\ [][NextSearch]_vars

----------------------------------------------------------------------------
(* search: matching a page *)

\* longest expression, longest page text and longest list of expressions
MaxTerm == 3
MaxText == 2
MaxList == 2

\* the characters of an expression: letters, white space, and the two
\* operators, each taken as one character
OR == "~OR~"

AND == "~AND~"

Space == " "

Letters == {"a", "A", "b"}

TermChars == Letters \cup {Space, OR, AND}

TextChars == Letters \cup {Space}

\* str.lower()
lower_char(c) ==
    IF c = "A" THEN "a" ELSE IF c = "B" THEN "b" ELSE IF c = "PT-BR" THEN "pt-br" ELSE c

lower_unfolded(s) == s

lower(s) == [i \in DOMAIN s |-> lower_char(s[i])]

\* str.split(sep): the pieces between the separators, in order
split(s, sep) ==
    LET F[i \in 0..Len(s)] ==
            IF i = 0 THEN <<<<>>>>
            ELSE IF s[i] = sep THEN Append(F[i - 1], <<>>)
            ELSE [F[i - 1] EXCEPT ![Len(F[i - 1])] = Append(@, s[i])]
    IN  F[Len(s)]

\* str.strip() of an expression or of a piece of one
strip_spaces(s) ==
    LET inked == {i \in DOMAIN s : s[i] # Space}
    IN  IF inked = {} THEN <<>>
        ELSE SubSeq(s, CHOOSE i \in inked : \A j \in inked : i <= j,
                       CHOOSE i \in inked : \A j \in inked : j <= i)

\* [part.strip() for part in term.split(sep) if part.strip()]
unstripped_parts(term, sep) == split(term, sep)

stripped_parts(term, sep) ==
    SelectSeq([i \in DOMAIN split(term, sep) |-> strip_spaces(split(term, sep)[i])],
              LAMBDA part : part # <<>>)

\* `sub in text`, or `sub.lower() in text.lower()`
in_text(sub, text, case_sensitive) ==
    IF case_sensitive THEN Contains(text, sub) ELSE Contains(lower(text), lower(sub))

matches_operator(term, text, case_sensitive) ==
    IF OR \in Range(term)
    THEN LET parts == stripped_parts(term, OR)
         IN  \E p \in DOMAIN parts :
                IF AND \in Range(parts[p])
                THEN LET subparts == stripped_parts(parts[p], AND)
                     IN  \A q \in DOMAIN subparts :
                            in_text(subparts[q], text, case_sensitive)
                ELSE in_text(parts[p], text, case_sensitive)
    ELSE IF AND \in Range(term)
    THEN LET subparts == stripped_parts(term, AND)
         IN  \A q \in DOMAIN subparts : in_text(subparts[q], text, case_sensitive)
    ELSE in_text(term, text, case_sensitive)

matches_search(search_str, text, case_sensitive) ==
    matches_operator(search_str, text, case_sensitive)

matches_ignore(ignore_str, text, case_sensitive) ==
    matches_operator(ignore_str, text, case_sensitive)

\* the characters of a title; a compound language code is taken as one
TitleLetters == {"e", "N"}

CompoundCodes == {"pt-br", "zh-hans", "zh-hant"}

\* re.compile(r"/([a-z]{2}|pt-br|zh-hans|zh-hant)$", re.IGNORECASE).search
country_code_pattern_two_letters(title) ==
    /\ Len(title) >= 3
    /\ title[Len(title) - 2] = "/"
    /\ title[Len(title) - 1] \in TitleLetters
    /\ title[Len(title)] \in TitleLetters

country_code_pattern(title) ==
    \/ /\ Len(title) >= 3
       /\ title[Len(title) - 2] = "/"
       /\ title[Len(title) - 1] \in TitleLetters
       /\ title[Len(title)] \in TitleLetters
    \/ /\ Len(title) >= 2
       /\ title[Len(title) - 1] = "/"
       /\ lower_char(title[Len(title)]) \in CompoundCodes

\* search_page without its loop over ignore_strings
search_page_ignore_skipped(t) ==
    IF t.ignore_country_codes /\ country_code_pattern(t.title) THEN None
    ELSE IF \E j \in DOMAIN t.search_terms_list :
               matches_search(t.search_terms_list[j], t.text, t.case_sensitive)
    THEN [is_none |-> FALSE, data |-> t.title]
    ELSE None

search_page(t) ==
    IF t.ignore_country_codes /\ country_code_pattern(t.title) THEN None
    ELSE IF \E j \in DOMAIN t.ignore_strings :
               /\ t.ignore_strings[j] # <<>>
               /\ matches_ignore(t.ignore_strings[j], t.text, t.case_sensitive)
    THEN None
    ELSE IF \E j \in DOMAIN t.search_terms_list :
               matches_search(t.search_terms_list[j], t.text, t.case_sensitive)
    THEN [is_none |-> FALSE, data |-> t.title]
    ELSE None

\* the characters of a term as typed at the prompt, and the newline
Backslash == "\\"

Slash == "/"

Newline == "\n"

RawChars == {Backslash, Slash, "n", Space}

\* str.replace(old, new) for an old of two characters and a new of one
RECURSIVE str_replace(_, _, _)
str_replace(s, old, new) ==
    IF Len(s) < 2 THEN s
    ELSE IF SubSeq(s, 1, 2) = old
    THEN <<new>> \o str_replace(SubSeq(s, 3, Len(s)), old, new)
    ELSE <<Head(s)>> \o str_replace(Tail(s), old, new)

process_multiline_string_backslash_only(s) ==
    str_replace(s, <<Backslash, "n">>, Newline)

process_multiline_string(s) ==
    str_replace(str_replace(s, <<Backslash, "n">>, Newline), <<Slash, "n">>, Newline)

\* main, step 2, for one piece of the comma-separated input:
\* [process_multiline_string(term.strip()) for term in ... if term.strip()]
prompt_terms(raw) ==
    IF strip_spaces(raw) = <<>> THEN <<>>
    ELSE <<process_multiline_string(strip_spaces(raw))>>

\* the titles, texts and expressions search_page is called with: main keeps
\* an expression only if it is not empty once stripped
PageTitles ==
    {<<"N">>, <<"N", "/", "e">>, <<"N", "/", "e", "N">>, <<"N", "/", "pt-br">>,
     <<"N", "/", "PT-BR">>, <<"/", "e", "e", "e">>}

PageTexts == {<<>>, <<"a">>, <<"b">>, <<"a", "b">>}

Expressions == {<<"a">>, <<"b">>, <<"a", AND, "b">>}

InitMatch ==
    /\ script = "search"
    /\ pc = "call"
    /\ titles = <<>>
    /\ workers = <<>>
    /\ handled = <<>>
    /\ StoreDefault
    /\ CommitIdle
    /\ DeleteIdle
    /\ runs = 0
    /\ json_file = NoArtifact
    /\ OthersIdle
    /\ CacheIdle
    /\ MainIdle
    /\ GateIdle
    /\ result = "none"
    /\ \/ task \in [name : {"matches_operator"},
                    term : SeqsUpTo(TermChars, MaxTerm),
                    text : SeqsUpTo(TextChars, MaxText),
                    case_sensitive : BOOLEAN]
       \/ task \in [name : {"prompt_terms"}, raw : SeqsUpTo(RawChars, MaxTerm)]
       \/ task \in [name : {"search_page"},
                    title : PageTitles,
                    text : PageTexts,
                    search_terms_list : SeqsUpTo(Expressions, MaxList),
                    case_sensitive : BOOLEAN,
                    ignore_strings : SeqsUpTo(Expressions, MaxList),
                    ignore_country_codes : BOOLEAN]

call_matches_operator ==
    /\ script = "search"
    /\ pc = "call"
    /\ task.name = "matches_operator"
    /\ result' = matches_operator(task.term, task.text, task.case_sensitive)
    /\ pc' = "returned"
    /\ UNCHANGED <<script, titles, workers, handled, cachevars, mainvars, lrvars, oldidvars, task, store, commit,
                   menu, deletion_queue, delmaps, delscan, delcount, others>>

call_search_page ==
    /\ script = "search"
    /\ pc = "call"
    /\ task.name = "search_page"
    /\ result' = search_page(task)
    /\ pc' = "returned"
    /\ UNCHANGED <<script, titles, workers, handled, cachevars, mainvars, lrvars, oldidvars, task, store, commit,
                   menu, deletion_queue, delmaps, delscan, delcount, others>>

call_prompt_terms ==
    /\ script = "search"
    /\ pc = "call"
    /\ task.name = "prompt_terms"
    /\ result' = prompt_terms(task.raw)
    /\ pc' = "returned"
    /\ UNCHANGED <<script, titles, workers, handled, cachevars, mainvars, lrvars, oldidvars, task, store, commit,
                   menu, deletion_queue, delmaps, delscan, delcount, others>>

NextMatch ==
    \/ call_matches_operator
    \/ call_prompt_terms
    \/ call_search_page

SpecMatch == InitMatch /\ [][NextMatch]_vars

----------------------------------------------------------------------------
(* search: a run of main *)

\* most entries of a loaded wiki cache
MaxCache == 3

is_wiki_directory_valid(file_exists, time, mod_time) ==
    is_file_valid(file_exists, time, mod_time, max_age_seconds)

\* site.allpages(namespace=0): the pages of the wiki, in title order
allpages(exists) == SelectSeq(<<"A", "B", "R">>, LAMBDA t : exists[t])

\* a directory an earlier run wrote
OldDirectory == [exists |-> TRUE, mtime |-> 0, lines |-> <<"A">>]

\* the answers at the four prompts of step 2
SearchSettings ==
    [asked : {TRUE},
     search_terms_list : {<<<<"a">>>>, <<<<"b">>, <<"a", AND, "b">>>>},
     case_sensitive : {FALSE},
     ignore_strings : {<<>>, <<<<"b">>>>},
     ignore_country_codes : BOOLEAN]

result_returns_at_once(future) == TRUE

\* future.result() returns, or raises the task's exception, once the task is over
result_returns(future) == future \in {"done", "raised"}

InitMain ==
    /\ script = "search"
    /\ pc = "start"
    /\ titles = <<>>
    /\ workers = <<>>
    /\ handled = <<>>
    /\ pageExists \in [Titles -> BOOLEAN]
    /\ pageText = [t \in Titles |-> <<t>>]
    /\ CommitIdle
    /\ DeleteIdle
    /\ runs = 0
    /\ json_file = NoArtifact
    /\ OthersIdle
    /\ GateIdle
    /\ now \in {0, max_age_seconds}
    /\ cache_file \in {NoCache, OldCache}
    /\ wiki_cache = <<>>
    /\ valid = FALSE
    /\ snapshot = [ok |-> cache_file.complete, at |-> 0]
    /\ MatchIdle
    /\ redirect_page_exists = "not asked"
    /\ oldid_q = <<>>
    /\ wiki_dir_future = "None"
    /\ wiki_directory_file \in {NoDirectory, OldDirectory}
    /\ settings = NoSettings
    /\ tasks = <<>>
    /\ matching_titles = <<>>
    /\ search_results = <<>>

\* main, step 1: a directory that is missing or too old is rebuilt by a task
\* of the background executor
main_step_1 ==
    /\ script = "search"
    /\ pc = "start"
    /\ wiki_dir_future' =
            IF is_wiki_directory_valid(wiki_directory_file.exists, now,
                                       wiki_directory_file.mtime)
            THEN "None" ELSE "pending"
    /\ pc' = "prompt"
    /\ UNCHANGED <<matchvars, lrvars, oldidvars, cachevars, script, titles, workers, handled,
                   wiki_directory_file, settings, tasks, matching_titles, search_results,
                   store, commit, menu, deletion_queue, delmaps, delscan, delcount, others>>

\* update_wiki_directory: open(directory_file, 'w') truncates the file
update_wiki_directory_open(opened) ==
    /\ script = "search"
    /\ wiki_dir_future = "pending"
    /\ wiki_dir_future' = IF opened THEN "writing" ELSE "raised"
    /\ wiki_directory_file' =
            IF opened THEN [exists |-> TRUE, mtime |-> now, lines |-> <<>>]
            ELSE wiki_directory_file
    /\ UNCHANGED <<matchvars, lrvars, oldidvars, cachevars, sched, settings, tasks, matching_titles,
                   search_results, store, commit, menu, deletion_queue, delmaps, delscan,
                   delcount, others>>

\* update_wiki_directory: one title of site.allpages is written, or the
\* listing raises and the with statement closes the file
update_wiki_directory_write(listed) ==
    /\ script = "search"
    /\ wiki_dir_future = "writing"
    /\ Len(wiki_directory_file.lines) < Len(allpages(pageExists))
    /\ IF listed
       THEN /\ wiki_directory_file' =
                    [exists |-> TRUE, mtime |-> now,
                     lines |-> Append(wiki_directory_file.lines,
                                      allpages(pageExists)[Len(wiki_directory_file.lines) + 1])]
            /\ UNCHANGED wiki_dir_future
       ELSE /\ wiki_dir_future' = "raised"
            /\ UNCHANGED wiki_directory_file
    /\ UNCHANGED <<matchvars, lrvars, oldidvars, cachevars, sched, settings, tasks, matching_titles,
                   search_results, store, commit, menu, deletion_queue, delmaps, delscan,
                   delcount, others>>

\* update_wiki_directory: the listing is exhausted and the function returns
update_wiki_directory_return ==
    /\ script = "search"
    /\ wiki_dir_future = "writing"
    /\ Len(wiki_directory_file.lines) = Len(allpages(pageExists))
    /\ wiki_dir_future' = "done"
    /\ UNCHANGED <<matchvars, lrvars, oldidvars, cachevars, sched, wiki_directory_file, settings, tasks,
                   matching_titles, search_results, store, commit, menu, deletion_queue,
                   delmaps, delscan, delcount, others>>

\* main, step 2: the four prompts
main_step_2(answers) ==
    /\ script = "search"
    /\ pc = "prompt"
    /\ settings' = answers
    /\ pc' = "wait_directory"
    /\ UNCHANGED <<matchvars, lrvars, oldidvars, cachevars, script, titles, workers, handled, wiki_dir_future,
                   wiki_directory_file, tasks, matching_titles, search_results, store,
                   commit, menu, deletion_queue, delmaps, delscan, delcount, others>>

\* main, step 3: wiki_dir_future.result() if a task was started, then the
\* directory is opened and read; the task's exception and a missing file end
\* the run
main_step_3 ==
    /\ script = "search"
    /\ pc = "wait_directory"
    /\ wiki_dir_future = "None" \/ result_returns(wiki_dir_future)
    /\ IF wiki_dir_future = "raised" \/ ~wiki_directory_file.exists
       THEN /\ pc' = "crashed"
            /\ UNCHANGED titles
       ELSE /\ pc' = "idle"
            /\ titles' = stripped_nonblank(wiki_directory_file.lines)
    /\ UNCHANGED <<matchvars, lrvars, oldidvars, cachevars, mainvars, script, workers, handled, store, commit,
                   menu, deletion_queue, delmaps, delscan, delcount, others>>

\* main, step 5: one tuple per entry of the wiki cache
main_step_5 ==
    /\ script = "search"
    /\ pc \in {"loaded", "rebuilt"}
    /\ tasks' = [j \in DOMAIN wiki_cache |->
                    [name |-> "search_page",
                     title |-> wiki_cache[j][1],
                     text |-> wiki_cache[j][2],
                     search_terms_list |-> settings.search_terms_list,
                     case_sensitive |-> settings.case_sensitive,
                     ignore_strings |-> settings.ignore_strings,
                     ignore_country_codes |-> settings.ignore_country_codes]]
    /\ pc' = "tasks_built"
    /\ UNCHANGED <<matchvars, lrvars, oldidvars, cachevars, script, titles, workers, handled, wiki_dir_future,
                   wiki_directory_file, settings, matching_titles, search_results, store,
                   commit, menu, deletion_queue, delmaps, delscan, delcount, others>>

NextMain ==
    \/ Tick
    \/ main_step_1
    \/ \E opened \in BOOLEAN : update_wiki_directory_open(opened)
    \/ \E listed \in BOOLEAN : update_wiki_directory_write(listed)
    \/ update_wiki_directory_return
    \/ \E answers \in SearchSettings : main_step_2(answers)
    \/ main_step_3
    \/ main_step_4
    \/ \E b \in DOMAIN workers, fetched \in BOOLEAN : load_batch_task(b, fetched)
    \/ \E b \in DOMAIN workers : cache_collect(b)
    \/ \E outcome \in {"ok", "open_failed", "dump_failed"} : cache_save(outcome)
    \/ main_step_5

SpecMain == InitMain /\ [][NextMain]_vars

\* the titles and texts of a loaded cache
PoolTitles == {<<"N">>, <<"N", "/", "e", "e">>, <<"/", "e", "e", "e">>}

PoolTexts == {<<"a">>, <<"b">>}

CacheContents ==
    {d \in SeqsUpTo(PoolTitles \X PoolTexts, MaxCache) :
        \A a, b \in DOMAIN d : d[a][1] = d[b][1] => a = b}

\* ord() of the characters of a title
ord(c) == IF c = "/" THEN 47 ELSE IF c = "N" THEN 78 ELSE 101

\* a < b on str
RECURSIVE str_less(_, _)
str_less(a, b) ==
    IF b = <<>> THEN FALSE
    ELSE IF a = <<>> THEN TRUE
    ELSE IF Head(a) = Head(b) THEN str_less(Tail(a), Tail(b))
    ELSE ord(Head(a)) < ord(Head(b))

list_unsorted(q) == q

\* list.sort()
list_sort(q) == SortSeq(q, str_less)

\* main after step 4 found a valid cache and loaded it
InitPool ==
    /\ script = "search"
    /\ pc = "loaded"
    /\ titles = <<>>
    /\ workers = <<>>
    /\ handled = <<>>
    /\ StoreDefault
    /\ CommitIdle
    /\ DeleteIdle
    /\ runs = 0
    /\ json_file = NoArtifact
    /\ OthersIdle
    /\ GateIdle
    /\ now = 0
    /\ wiki_cache \in CacheContents
    /\ cache_file = [exists |-> TRUE, mtime |-> 0, data |-> wiki_cache, complete |-> TRUE]
    /\ valid = TRUE
    /\ snapshot = [ok |-> TRUE, at |-> 0]
    /\ MatchIdle
    /\ redirect_page_exists = "not asked"
    /\ oldid_q = <<>>
    /\ wiki_dir_future = "None"
    /\ wiki_directory_file = [exists |-> TRUE, mtime |-> 0, lines |-> <<>>]
    /\ settings \in SearchSettings
    /\ tasks = <<>>
    /\ matching_titles = <<>>
    /\ search_results = <<>>

\* main, step 6: one future per task
main_step_6 ==
    /\ script = "search"
    /\ pc = "tasks_built"
    /\ workers' = [i \in DOMAIN tasks |-> [pc |-> "ready", out |-> None, raised |-> FALSE]]
    /\ handled' = [i \in DOMAIN tasks |-> 0]
    /\ matching_titles' = <<>>
    /\ pc' = "search_pool"
    /\ UNCHANGED <<matchvars, lrvars, oldidvars, cachevars, script, titles, wiki_dir_future,
                   wiki_directory_file, settings, tasks, search_results, store, commit,
                   menu, deletion_queue, delmaps, delscan, delcount, others>>

\* search_page in a pool process: its return value, or the exception the
\* future holds when the process could not deliver one
search_page_task(i, returned) ==
    /\ script = "search"
    /\ pc = "search_pool"
    /\ workers[i].pc = "ready"
    /\ workers' = [workers EXCEPT ![i] =
            [pc |-> "done",
             out |-> IF returned THEN search_page(tasks[i]) ELSE None,
             raised |-> ~returned]]
    /\ UNCHANGED <<matchvars, lrvars, oldidvars, cachevars, mainvars, script, pc, titles, handled, store,
                   commit, menu, deletion_queue, delmaps, delscan, delcount, others>>

\* main, step 6: one iteration of the as_completed loop; `if result:` keeps a
\* title, the exception of a future is printed
search_collect(i) ==
    /\ script = "search"
    /\ pc = "search_pool"
    /\ workers[i].pc = "done"
    /\ handled[i] = 0
    /\ handled' = [handled EXCEPT ![i] = @ + 1]
    /\ matching_titles' =
            IF ~workers[i].raised /\ ~workers[i].out.is_none /\ workers[i].out.data # <<>>
            THEN Append(matching_titles, workers[i].out.data)
            ELSE matching_titles
    /\ UNCHANGED <<matchvars, lrvars, oldidvars, cachevars, script, pc, titles, workers, wiki_dir_future,
                   wiki_directory_file, settings, tasks, search_results, store, commit,
                   menu, deletion_queue, delmaps, delscan, delcount, others>>

\* main after the pool: matching_titles.sort(), then search_results.txt is
\* opened for writing and filled; the open can fail
main_write_results(opened) ==
    /\ script = "search"
    /\ pc = "search_pool"
    /\ pool_block_done(workers, handled)
    /\ matching_titles' = list_sort(matching_titles)
    /\ search_results' = IF opened THEN matching_titles' ELSE search_results
    /\ pc' = IF opened THEN "written" ELSE "crashed"
    /\ UNCHANGED <<matchvars, lrvars, oldidvars, cachevars, script, titles, workers, handled, wiki_dir_future,
                   wiki_directory_file, settings, tasks, store, commit, menu,
                   deletion_queue, delmaps, delscan, delcount, others>>

NextPool ==
    \/ main_step_5
    \/ main_step_6
    \/ \E i \in DOMAIN workers, returned \in BOOLEAN : search_page_task(i, returned)
    \/ \E i \in DOMAIN workers : search_collect(i)
    \/ \E opened \in BOOLEAN : main_write_results(opened)

SpecPool == InitPool /\ [][NextPool]_vars

----------------------------------------------------------------------------
(* Every script *)

Init == InitDelete \/ InitFR \/ InitLP \/ InitLH \/ InitLR

Next == NextDelete \/ NextFR \/ NextLP \/ NextLH \/ NextLR

Spec == Init /\ [][Next]_vars

----------------------------------------------------------------------------
(* Claims *)

\* C1: in every commit loop, between the end of one mutation call and the
\* start of the next at least the configured delay elapses, whether the
\* earlier call succeeded or raised: whenever a mutation call is in flight
\* that is not the first of its loop, some time was slept since the previous
\* call returned.
C1_DelayBetweenMutations ==
    (in_flight > 0 /\ last_gap # NoMutation) => last_gap > 0

\* C2: check_page_edit_safety returns True only if every revision of the
\* history has an editor in the allow-list; one revision whose editor is
\* outside it, an empty editor included, yields False.
C2_TrueOnlyIfAllAllowed ==
    (script = "gate" /\ pc = "returned") =>
        (gate_out => \A j \in DOMAIN gate_in.revs : gate_in.revs[j] \in allowed_editors)

\* C3: check_page_edit_safety is fail-closed.  For every scan task whose
\* safety check met a missing page or an exception (of exists(), of
\* revisions(), or part-way through the revisions), the check's result is
\* False: the task never reaches the puts, its result is not SAFE, and it has
\* put nothing into deletion_queue.
C3_FailClosed ==
    script = "delete_pages" =>
        \A i \in DOMAIN workers :
            workers[i].gate \in {"absent", "raised"} =>
                /\ workers[i].pc # "put"
                /\ workers[i].out # "SAFE"
                /\ workers[i].k = 0

\* a finished task whose history retrieval raised and one whose page was
\* missing, both skipped as unsafe
C3_Witness ==
    /\ script = "delete_pages"
    /\ Len(workers) = 2
    /\ workers[1].gate = "raised" /\ workers[1].out = "SKIPPED_UNSAFE"
    /\ workers[2].gate = "absent" /\ workers[2].out = "SKIPPED_UNSAFE"

\* C4: during the scan, every title put into deletion_queue has had the
\* safety gate evaluated for that very title with result True.
C4_QueuedOnlyAfterGate == scan_put \subseteq gate_passed

\* the redirects the loaded map lists under keys whose scan outcome was SAFE
RedirectsOfSafe(d) == UNION {Range(d[i][2]) : i \in {j \in DOMAIN d : d[j][1] \in safe_outcome}}

\* C5: a title is written into the redirect map by phase_1, and so deleted as
\* a main page by the phase_2 that reads that map, only if its scan outcome
\* was SAFE; a title skipped as unsafe or ended in error gets no delete call.
C5_OnlySafeDeleted ==
    /\ DictKeys(redirect_data) \subseteq safe_outcome
    /\ json_file.fresh =>
          /\ DictKeys(json_file.data) \subseteq safe_outcome
          /\ mutated \subseteq safe_outcome \cup RedirectsOfSafe(json_file.data)

\* the outcomes the as_completed loop has handled
Outcomes == processed_safe + skipped_unsafe + error_outcomes

\* C6: the scan consumes exactly one outcome per input title: no task is
\* handled twice, the outcomes handled so far are the tasks handled so far,
\* and when the pool has shut down every task has been handled once, so the
\* outcomes number the input titles.
C6_OneOutcomePerTitle ==
    (script = "delete_pages" /\ pc \in {"p1_collect", "p1_report"}) =>
        /\ \A i \in DOMAIN titles : handled[i] <= 1
        /\ Outcomes = Cardinality({i \in DOMAIN titles : handled[i] = 1})
        /\ pc = "p1_report" =>
              /\ \A i \in DOMAIN titles : handled[i] = 1
              /\ Outcomes = Len(titles)

\* a finished scan of a list that repeats a title, one of whose tasks failed
C6_Witness ==
    /\ script = "delete_pages"
    /\ pc = "p1_report"
    /\ Len(titles) = 2
    /\ titles[1] = titles[2]
    /\ error_outcomes = 1
    /\ Outcomes = 2

\* C7: in every scan pool an exception raised inside the per-title predicate
\* becomes an error outcome of that title only; the other outcomes are still
\* collected and the run goes on to the next stage, so no run ends in its scan.
C7_ScanSurvivesPredicateException == pc # "scan_crashed"

\* the states in which the committer is inside a store call
CallingStates == {"deleting", "fr_saving", "lp_saving", "lh_saving", "lr_saving"}

\* C8: never are two mutation calls in flight at once: at most one call is in
\* flight, only while the committer is inside its store call, and the
\* committer takes the next item only when no call is in flight.
C8_OneMutationInFlight ==
    /\ [](in_flight \in {0, 1} /\ (in_flight = 1 <=> pc \in CallingStates))
    /\ [][dequeued' = dequeued + 1 => in_flight = 0]_vars

\* the call for the second item of a deletion queue is in flight, the first
\* having been deleted
C8_Witness ==
    /\ script = "delete_pages"
    /\ pc = "deleting"
    /\ in_flight = 1
    /\ dequeued = 2
    /\ successful_deletions = 1

\* a step of the find-and-replace scripts dequeues or issues a call only
\* when every scan task is done, and after the sort only shrinks the queue
CommitStepAfterScan ==
    script \in FRScripts =>
        /\ (dequeued' # dequeued \/ in_flight' > in_flight) =>
              \A i \in DOMAIN workers : workers[i].pc = "done"
        /\ pc # "fr_scan" =>
              /\ Len(edit_queue') <= Len(edit_queue)
              /\ Range(edit_queue') \subseteq Range(edit_queue)

\* C9: the commit phase starts only after every scan worker has terminated:
\* while the committer runs every scan task is done and handled, no item is
\* dequeued and no mutation call issued while a task still runs, and from
\* the sort on nothing is inserted into the queue, whose size only decreases.
C9_CommitAfterScan ==
    /\ []((script \in FRScripts /\ pc # "fr_scan") =>
            \A i \in DOMAIN workers : workers[i].pc = "done" /\ handled[i] = 1)
    /\ [][CommitStepAfterScan]_vars

\* the save of the second of two queued pages is in flight
C9_Witness ==
    /\ script \in FRScripts
    /\ pc = "fr_saving"
    /\ Len(titles) = 2
    /\ dequeued = 2
    /\ edit_queue = <<>>

\* the items the commit loop had before it at its start
QueuedAtCommitStart ==
    IF script = "redirectfixer" THEN Len(titles) ELSE Len(unique_redirect_dict)

\* C11: in every commit loop a store call that raises for one item never
\* stops the run: when the run has ended, every item that was queued at
\* commit start has been taken.
C11_FailureNeverStopsRun ==
    (script \in {"redirectfixer", "languageredirects"}
        /\ pc \in {"done", "commit_crashed"}) => dequeued = QueuedAtCommitStart

\* the items process_deletion_queue has classified so far
Classified == successful_deletions + failed_deletions + not_found

\* a step inside process_deletion_queue lowers no counter and classifies at
\* most one item
CountersOnlyGrow ==
    (script = "delete_pages" /\ pc \in {"commit", "deleting"}) =>
        /\ successful_deletions' >= successful_deletions
        /\ failed_deletions' >= failed_deletions
        /\ not_found' >= not_found
        /\ Classified' - Classified \in {0, 1}

\* C12: in process_deletion_queue every dequeued item is classified as
\* exactly one of success, skipped-not-found or failed: the three counts sum
\* to the items dequeued (less the one whose delete call is in flight), no
\* counter decreases, and at the end the sum is the queue size at commit
\* start, which is the number of titles loaded from the map.
C12_EveryItemClassifiedOnce ==
    /\ []((script = "delete_pages" /\ pc \in {"commit", "deleting", "p2_report"}) =>
            (/\ Classified + in_flight = dequeued
             /\ dequeued + Len(deletion_queue) = Len(Flatten(json_file.data))
             /\ (pc = "p2_report" => Classified = Len(Flatten(json_file.data)))))
    /\ [][CountersOnlyGrow]_vars

\* a finished commit of three items, one deleted, one not found, one failed
C12_Witness ==
    /\ script = "delete_pages"
    /\ pc = "p2_report"
    /\ successful_deletions = 1
    /\ failed_deletions = 1
    /\ not_found = 1
    /\ dequeued = 3

\* the input titles whose page exists and whose text the mappings change
Matching ==
    {t \in Range(titles) :
        pageExists[t] /\ apply_mappings(pageText[t], mappings[script]) # pageText[t]}

\* C13: after the scan phase of findandreplace the edit queue holds exactly
\* the input titles whose page exists and whose text the mappings change: no
\* title with unchanged text, no missing page, no matching title left out.
C13_QueueIsExactlyMatching ==
    (script = "findandreplace" /\ pc = "fr_commit" /\ dequeued = 0
        /\ \A t \in Titles : pageExists[t]) => Range(edit_queue) = Matching

\* how often a title occurs in a queue
Occurrences(q, t) == Cardinality({j \in DOMAIN q : q[j] = t})

IsAscending(q) == \A j \in 1..(Len(q) - 1) : TitleRank[q[j]] <= TitleRank[q[j + 1]]

\* the sort step keeps every title as often as the scan inserted it, and the
\* committer takes from the head
SortKeepsTakeHead ==
    script \in FRScripts =>
        /\ (pc = "fr_scan" /\ pc' = "fr_commit") =>
              \A t \in Titles : Occurrences(edit_queue', t) = Occurrences(edit_queue, t)
        /\ dequeued' = dequeued + 1 => edit_queue' = Tail(edit_queue)

\* C14: in findandreplace and multifindandreplace the sort-and-redistribute
\* step leaves the queue with the same multiset of titles the scan inserted,
\* and the committer processes them in ascending order of title whatever the
\* order the workers completed in: from the sort on the queue is ascending
\* and is consumed from its head.
C14_SortedSameMultiset ==
    /\ []((script \in FRScripts /\ pc \in {"fr_commit", "fr_saving"}) =>
            IsAscending(edit_queue))
    /\ [][SortKeepsTakeHead]_vars

\* a sorted queue of two titles that the input listed in descending order
C14_Witness ==
    /\ script \in FRScripts
    /\ pc = "fr_commit"
    /\ titles = <<"B", "A">>
    /\ edit_queue = <<"A", "B">>

\* the first position of a title in the input list
FirstIndex(t) == CHOOSE i \in DOMAIN titles : titles[i] = t /\ \A j \in 1..(i - 1) : titles[j] # t

\* the keys of a dict stand in the order of their first occurrence in the input
KeysInInputOrder(d) ==
    \A a, b \in DOMAIN d : a < b => FirstIndex(d[a][1]) < FirstIndex(d[b][1])

\* the results of the scan tasks, concatenated in input order
ResultsInInputOrder ==
    LET F[i \in 0..Len(titles)] == IF i = 0 THEN <<>> ELSE F[i - 1] \o workers[i].out
    IN  F[Len(titles)]

\* C15: two runs over the same title list against the same store contents
\* issue their mutation calls in the same order however the scan workers'
\* completions interleave.  One interleaving completes the tasks in input
\* order, so every run must commit in the order that one produces: the
\* deletion map keyed in input order, the languagepages queue and the
\* languageheader queue listing the scan results in input order.
C15_CommitOrderIndependentOfScan ==
    /\ (script = "delete_pages" /\ pc = "p1_report") => KeysInInputOrder(redirect_data)
    /\ (script = "languagepages" /\ pc = "lp_commit") =>
            queue = Pick(titles, {i \in DOMAIN titles : workers[i].out # NoItem})
    /\ (script = "languageheader" /\ pc = "lh_commit") =>
            pages_to_edit_queue = ResultsInInputOrder

NoRepeat(q) == \A a, b \in DOMAIN q : q[a] = q[b] => a = b

\* C16: when the commit phase begins the mutation queue holds no title more
\* than once, also when the input list repeats a title or a redirect of one
\* page is an input page or a redirect of another.
C16_QueueHasNoRepeat ==
    /\ (script = "delete_pages" /\ pc = "commit" /\ dequeued = 0) => NoRepeat(deletion_queue)
    /\ (script \in FRScripts /\ pc = "fr_commit" /\ dequeued = 0) => NoRepeat(edit_queue)

\* C17: in languageredirects a (page, target) candidate is retained if and
\* only if no other candidate page of the batch maps to the same target; so
\* no two retained entries share a target, each retained entry is taken
\* once, and when all candidates of a target collide none is retained.
C17_RetainedIffTargetUnique ==
    (script = "languageredirects" /\ pc \in {"lr_commit", "lr_saving", "done", "commit_crashed"}) =>
        /\ \A j \in DOMAIN redirect_dict :
              (redirect_dict[j] \in Range(unique_redirect_dict)) <=>
                  (\A m \in DOMAIN redirect_dict :
                      redirect_dict[m][2] = redirect_dict[j][2] => m = j)
        /\ Range(unique_redirect_dict) \subseteq Range(redirect_dict)
        /\ \A a, b \in DOMAIN unique_redirect_dict :
              unique_redirect_dict[a][2] = unique_redirect_dict[b][2] => a = b
        /\ dequeued <= Len(unique_redirect_dict)

\* two candidate pages with the same target: nothing is retained
C17_Witness ==
    /\ script = "languageredirects"
    /\ pc = "done"
    /\ Len(redirect_dict) = 2
    /\ redirect_dict[1][2] = redirect_dict[2][2]
    /\ unique_redirect_dict = <<>>

\* the answer of is_cache_valid at step 4 is right for the file and the clock
ValidityAnswer ==
    (script = "search" /\ pc = "idle" /\ pc' # "idle") =>
        (valid' <=> (cache_file.exists /\ now - cache_file.mtime < max_age_seconds))

\* C18: is_cache_valid / is_file_valid returns True if and only if the cache
\* file exists and its age, now minus modification time, is strictly less
\* than the maximum age; a missing file, or an age equal to or above the
\* maximum, yields False.
C18_ValidIffExistsAndYoung == [][ValidityAnswer]_vars

\* the check found a file whose age is exactly the maximum, and a rebuild began
C18_Witness ==
    /\ script = "search"
    /\ pc = "cache_pool"
    /\ \A b \in DOMAIN workers : workers[b].pc = "ready"
    /\ cache_file.exists
    /\ now - cache_file.mtime = max_age_seconds
    /\ ~valid

\* C19: immediately after update_wiki_cache returns successfully the cache is
\* valid, and once the snapshot's age has passed the threshold is_cache_valid
\* is False until the next successful rebuild: the cache is valid only
\* within the maximum age of the last successful rebuild.
C19_ValidAfterRebuildStaleAfterAge ==
    script = "search" =>
        /\ pc = "rebuilt" => is_cache_valid(cache_file.exists, now, cache_file.mtime)
        /\ is_cache_valid(cache_file.exists, now, cache_file.mtime) =>
              (snapshot.ok /\ now - snapshot.at < max_age_seconds)

\* C20: in update_wiki_cache a batch whose fetch raised is not retried and its
\* titles are absent from the returned mapping, every title of every batch
\* that succeeded is present with its text, and the mapping is persisted and
\* returned.
C20_FailedBatchAbsentOthersPresent ==
    (script = "search" /\ pc = "rebuilt") =>
        /\ \A b \in DOMAIN workers :
              /\ handled[b] = 1
              /\ \A t \in Range(Batch(titles, b)) :
                    IF workers[b].raised
                    THEN ~DictHas(wiki_cache, t)
                    ELSE <<t, pageText[t]>> \in Range(wiki_cache)
        /\ cache_file.complete
        /\ cache_file.data = wiki_cache

\* a rebuild returned in which one batch failed and another was fetched
C20_Witness ==
    /\ script = "search"
    /\ pc = "rebuilt"
    /\ Len(workers) = 2
    /\ workers[1].raised
    /\ ~workers[2].raised
    /\ Len(wiki_cache) = 1

\* C21: the cache file is published atomically: at every moment during and
\* after a rebuild, an interrupted one included, the file is absent or holds
\* a complete snapshot, never a partially written one.
C21_CacheFileNeverPartial ==
    script = "search" => (~cache_file.exists \/ cache_file.complete)

\* C22: the mapping search.main scans is either the whole persisted snapshot,
\* no fetch task having been started, or a mapping rebuilt from scratch,
\* every entry of which a batch of this run fetched from the store; it is
\* never a mixture of old and freshly fetched entries.
C22_WholeSnapshotOrFullRebuild ==
    script = "search" =>
        /\ pc = "loaded" => (wiki_cache = cache_file.data /\ workers = <<>>)
        /\ pc \in {"cache_pool", "rebuilt"} =>
              \A j \in DOMAIN wiki_cache :
                  /\ wiki_cache[j] = <<wiki_cache[j][1], pageText[wiki_cache[j][1]]>>
                  /\ \E b \in DOMAIN workers :
                        /\ handled[b] = 1
                        /\ ~workers[b].raised
                        /\ wiki_cache[j] \in Range(workers[b].out)

\* a rebuild over two titles has merged both batches while the stale
\* snapshot of an earlier run is still on disk
C22_Witness ==
    /\ script = "search"
    /\ pc = "cache_pool"
    /\ cache_file = OldCache
    /\ Len(wiki_cache) = 2

\* C23: when a process-level precondition fails, the run ends without any
\* mutation call: findandreplace whose title list is missing stops for good
\* with nothing dequeued or saved; a delete_pages phase 1 that returns False
\* and a phase 2 whose redirect map is missing go straight back to the menu
\* (phase 2 is not started after a failed phase 1), leaving the queue, the
\* committer and the store's pages as they were.
PreconditionFailureEndsRun ==
    /\ (pc = "fr_start" /\ pc' # "fr_scan") =>
            pc' = "file_not_found" /\ UNCHANGED <<commit, store, edit_queue>>
    /\ pc = "file_not_found" =>
            UNCHANGED <<pc, commit, store, edit_queue>> /\ mutated = {} /\ in_flight = 0
    /\ (pc = "p1_start" /\ titles' = <<>>) =>
            pc' = "menu" /\ UNCHANGED <<commit, store, deletion_queue>>
    /\ (pc = "p2_load" /\ json_file.state # "ok") =>
            pc' = "menu" /\ UNCHANGED <<commit, store, deletion_queue>>
    /\ (pc = "p2_load" /\ pc' = "menu") =>
            UNCHANGED <<commit, store, deletion_queue>>

C23_PreconditionFailureNoMutation == [][PreconditionFailureEndsRun]_vars

C23_Witness ==
    /\ script = "delete_pages"
    /\ pc = "menu"
    /\ choice = "2"
    /\ json_file.state = "missing"
    /\ mutated = {}

\* C30: blank lines of the title list file are ignored: no scan task is
\* submitted, and so no store call made and no item queued, for an empty
\* title.
C30_BlankLinesIgnored ==
    script \in FRScripts \cup {"delete_pages"} =>
        \A i \in DOMAIN workers : titles[i] # ""

\* C28: from the start of a scan until the commit begins no mutation call is
\* issued: while delete_pages is in phase 1 no call is in flight and none is
\* started, and as long as only phase 1 has been run, however often, the
\* store's pages change only by what other users of the wiki do.
ScanStates == {"p1_start", "p1_collect", "p1_report"}

ScanLeavesStoreAlone ==
    /\ pc \in ScanStates =>
            /\ in_flight = 0
            /\ in_flight' = 0
            /\ mutated' = mutated
            /\ pc' # "deleting"
    /\ ((pc \in ScanStates \/ choice = "1") /\ store' # store) =>
            \E t \in Titles : EnvDelete(t)

C28_NoMutationDuringScan == [][ScanLeavesStoreAlone]_vars

C28_Witness ==
    /\ script = "delete_pages"
    /\ runs = 0
    /\ choice = "1"
    /\ pc = "p1_report"
    /\ json_file.state = "ok"
    /\ deletion_queue # <<>>
    /\ mutated = {}
    /\ \A t \in Titles : pageExists[t]

\* C29: the committer sleeps only directly after an item for which a
\* mutation call was actually issued: the time slept changes only in the step
\* in which a call returns, and taking an item that is skipped, no call being
\* started for it, causes no delay.
SleepOnlyAfterMutation ==
    /\ since_mut' # since_mut => (in_flight = 1 /\ in_flight' = 0)
    /\ (dequeued' = dequeued + 1 /\ in_flight' = 0) => since_mut' = since_mut

C29_SleepOnlyAfterMutation == [][SleepOnlyAfterMutation]_vars

C29_Witness ==
    /\ script = "languageheader"
    /\ pc = "lh_commit"
    /\ dequeued = 2
    /\ Cardinality(mutated) = 1
    /\ since_mut = LanguageHeaderSleep
    /\ last_gap = NoMutation

\* the pieces of s between its separators, read off the separators' places
Pieces(s, sep) ==
    LET cuts == {0, Len(s) + 1} \cup {i \in DOMAIN s : s[i] = sep}
    IN  {SubSeq(s, i + 1, j - 1) :
            <<i, j>> \in {c \in cuts \X cuts :
                            c[1] < c[2] /\ ~\E k \in cuts : c[1] < k /\ k < c[2]}}

RECURSIVE Trimmed(_)
Trimmed(s) ==
    IF s = <<>> THEN s
    ELSE IF Head(s) = Space THEN Trimmed(Tail(s))
    ELSE IF s[Len(s)] = Space THEN Trimmed(SubSeq(s, 1, Len(s) - 1))
    ELSE s

Occurs(t, text, case_sensitive) ==
    \E i \in 0..Len(text), j \in 0..Len(text) :
        /\ i <= j
        /\ IF case_sensitive THEN SubSeq(text, i + 1, j) = t
           ELSE lower(SubSeq(text, i + 1, j)) = lower(t)

\* the reference evaluation, clauses and terms taken as they stand
ReferenceAsWritten(e, text, case_sensitive) ==
    \E c \in Pieces(e, OR) : \A t \in Pieces(c, AND) : Occurs(t, text, case_sensitive)

\* the reference evaluation, clauses and terms trimmed and the empty ones
\* left out
ReferenceTrimmed(e, text, case_sensitive) ==
    IF OR \notin Range(e) /\ AND \notin Range(e)
    THEN Occurs(e, text, case_sensitive)
    ELSE \E c \in {Trimmed(x) : x \in Pieces(e, OR)} \ {<<>>} :
             \A t \in {Trimmed(x) : x \in Pieces(c, AND)} \ {<<>>} :
                 Occurs(t, text, case_sensitive)

OperatorReturned == script = "search" /\ pc = "returned" /\ task.name = "matches_operator"

PageReturned == script = "search" /\ pc = "returned" /\ task.name = "search_page"

\* C24 (as stated): matches_operator equals the reference evaluation that
\* splits the expression on ~OR~ into clauses and each clause on ~AND~ into
\* terms and succeeds iff all terms of some clause are substrings of the text.
C24_EqualsReferenceAsWritten ==
    OperatorReturned =>
        result = ReferenceAsWritten(task.term, task.text, task.case_sensitive)

\* C24 (amended): matches_operator equals the reference evaluation in which
\* the clauses and terms of an expression with an operator are trimmed of
\* white space and the empty ones left out (a clause left without a term
\* succeeds, an expression left without a clause fails); an expression with
\* neither operator is one substring test of the expression as it stands.
C24_EqualsReferenceTrimmed ==
    OperatorReturned =>
        result = ReferenceTrimmed(task.term, task.text, task.case_sensitive)

C24_Witness ==
    /\ OperatorReturned
    /\ task.term = <<"a", Space, AND>>
    /\ task.text = <<"a">>
    /\ result = TRUE
    /\ ~ReferenceAsWritten(task.term, task.text, task.case_sensitive)

\* C25: with case_sensitive false the result of matches_operator does not
\* change when letters of the text or of the expression change case; with
\* case_sensitive true an expression of one term matches only if the text
\* holds that term letter for letter, case included.
swapcase_char(c) ==
    IF c = "a" THEN "A" ELSE IF c = "A" THEN "a" ELSE IF c = "b" THEN "B" ELSE c

Recased(s, S) == [i \in DOMAIN s |-> IF i \in S THEN swapcase_char(s[i]) ELSE s[i]]

C25_CaseFoldedOrExact ==
    OperatorReturned =>
        /\ ~task.case_sensitive =>
              /\ \A S \in SUBSET (DOMAIN task.term) :
                    matches_operator(Recased(task.term, S), task.text, FALSE) = result
              /\ \A S \in SUBSET (DOMAIN task.text) :
                    matches_operator(task.term, Recased(task.text, S), FALSE) = result
        /\ (task.case_sensitive /\ OR \notin Range(task.term) /\ AND \notin Range(task.term)) =>
              (result <=> \E i \in 0..(Len(task.text) - Len(task.term)) :
                              SubSeq(task.text, i + 1, i + Len(task.term)) = task.term)

C25_Witness ==
    /\ OperatorReturned
    /\ ~task.case_sensitive
    /\ task.term = <<"A", AND, "b">>
    /\ task.text = <<"a", "b">>
    /\ result = TRUE
    /\ ~matches_operator(task.term, task.text, TRUE)

\* C26: search_page returns None for every page whose text one of the ignore
\* expressions matches, whatever the search expressions give; it returns a
\* title, the page's own, only if no ignore expression matches and some
\* search expression does.
C26_IgnoredNeverReturned ==
    PageReturned =>
        LET ignored == \E j \in DOMAIN task.ignore_strings :
                          matches_operator(task.ignore_strings[j], task.text,
                                           task.case_sensitive)
            searched == \E j \in DOMAIN task.search_terms_list :
                           matches_operator(task.search_terms_list[j], task.text,
                                            task.case_sensitive)
        IN  /\ ignored => result = None
            /\ result # None => (result.data = task.title /\ ~ignored /\ searched)

C26_Witness ==
    /\ PageReturned
    /\ task.search_terms_list = <<<<"a">>>>
    /\ task.ignore_strings = <<<<"b">>, <<"a", AND, "b">>>>
    /\ task.text = <<"a", "b">>
    /\ ~task.ignore_country_codes
    /\ result = None

\* C27: with the exclusion of language variants enabled, search_page returns
\* None for every title that ends in "/" and a language code, whatever the
\* text and the expressions; with it disabled the title has no effect on
\* whether a page is returned.
EndsInLanguageCode(title) ==
    \E k \in DOMAIN title :
        /\ title[k] = "/"
        /\ \/ Len(title) = k + 2 /\ {title[k + 1], title[k + 2]} \subseteq TitleLetters
           \/ Len(title) = k + 1 /\ lower_char(title[k + 1]) \in CompoundCodes

C27_LanguageVariantsExcluded ==
    PageReturned =>
        /\ (task.ignore_country_codes /\ EndsInLanguageCode(task.title)) => result = None
        /\ ~task.ignore_country_codes =>
              \A t \in PageTitles :
                  (search_page([task EXCEPT !.title = t]) = None) <=> (result = None)

C27_Witness ==
    /\ PageReturned
    /\ task.ignore_country_codes
    /\ task.title = <<"N", "/", "pt-br">>
    /\ task.search_terms_list = <<<<"a">>>>
    /\ task.ignore_strings = <<>>
    /\ task.text = <<"a">>
    /\ result = None

\* C38: matches_operator returns true only if at least one non-empty term
\* of the expression occurs in the text; an expression whose clauses hold no
\* non-empty term matches no text.
NonEmptyTerms(e) ==
    UNION {{Trimmed(x) : x \in Pieces(c, AND)} \ {<<>>} : c \in Pieces(e, OR)}

C38_TrueOnlyByNonEmptyTerm ==
    (OperatorReturned /\ result) =>
        \E t \in NonEmptyTerms(task.term) : Occurs(t, task.text, task.case_sensitive)

\* C31: every term main keeps has been passed through
\* process_multiline_string: it holds no backslash-n and no slash-n any more,
\* and decoding it again changes nothing.
HasEscape(term) ==
    \E i \in 1..(Len(term) - 1) : term[i] \in {Backslash, Slash} /\ term[i + 1] = "n"

C31_DecodedOnceAndForAll ==
    (script = "search" /\ pc = "returned" /\ task.name = "prompt_terms") =>
        \A j \in DOMAIN result :
            /\ ~HasEscape(result[j])
            /\ process_multiline_string(result[j]) = result[j]

C31_Witness ==
    /\ script = "search"
    /\ pc = "returned"
    /\ task.name = "prompt_terms"
    /\ task.raw = <<Slash, Backslash, "n">>
    /\ result = <<<<Slash, Newline>>>>

\* C32: main never uses the result of a background rebuild before the rebuild
\* is over: once the directory has been read, the directory task (if one was
\* started) has finished and the titles read are the whole file; once the
\* tasks are built after a cache rebuild, every batch has been collected and
\* the tasks are those of the mapping the rebuild saved.
DirectoryRead ==
    pc \in {"idle", "cache_pool", "loaded", "load_failed", "rebuilt", "rebuild_failed",
            "tasks_built"}

C32_RebuildAwaited ==
    (script = "search" /\ settings # NoSettings) =>
        /\ DirectoryRead =>
            /\ wiki_dir_future \in {"None", "done"}
            /\ wiki_dir_future = "done" => titles = allpages(pageExists)
            /\ titles = wiki_directory_file.lines
        /\ (pc = "tasks_built" /\ ~valid) =>
            /\ pool_block_done(workers, handled)
            /\ cache_file.complete
            /\ cache_file.data = wiki_cache
            /\ [j \in DOMAIN tasks |-> <<tasks[j].title, tasks[j].text>>] = wiki_cache

C32_Witness ==
    /\ script = "search"
    /\ pc = "tasks_built"
    /\ wiki_dir_future = "done"
    /\ ~valid
    /\ Len(tasks) = 2

\* C39: the list written to search_results.txt is in ascending order with
\* no title twice, and holds exactly the titles search_page returned; a
\* strictly ascending list of a given set is one list, so the content does not
\* depend on the order in which the pool's tasks completed.
ReturnedTitles ==
    {tasks[i].title : i \in {j \in DOMAIN tasks :
                                ~workers[j].raised /\ ~workers[j].out.is_none}}

C39_ResultsSortedAndExact ==
    (script = "search" /\ pc = "written") =>
        /\ \A i, j \in DOMAIN search_results :
                i < j => str_less(search_results[i], search_results[j])
        /\ Range(search_results) = ReturnedTitles

C39_Witness ==
    /\ script = "search"
    /\ pc = "written"
    /\ Len(search_results) = 2
    /\ \E i \in DOMAIN workers : workers[i].out.is_none

\* C33: when phase 2 starts committing, the deletion queue is the loaded
\* redirect map, key by key with each key's redirects after it, whatever the
\* queue held before; no page outside that map is handed to page.delete.
QueueIsLoadedMap ==
    /\ (pc = "p2_confirm" /\ pc' = "commit") => deletion_queue' = Flatten(json_file.data)
    /\ pc' = "deleting" => item' \in Range(Flatten(json_file.data))

C33_QueueIsLoadedMap == [][QueueIsLoadedMap]_vars

C33_Witness ==
    /\ script = "delete_pages"
    /\ pc = "commit"
    /\ dequeued = 0
    /\ choice = "3"
    /\ json_file = OldArtifact
    /\ deletion_queue # <<>>

\* C34: in combined mode (menu option 3) phase 2 commits only the map that
\* the phase 1 just before it persisted: while it deletes, the artifact on
\* disk is the one this run wrote, never one an earlier run left.
C34_CombinedDeletesOnlyFresh ==
    (script = "delete_pages" /\ choice = "3" /\ pc \in {"commit", "deleting"}) =>
        json_file.fresh

\* C35: phase_2 hands a page to page.delete only after the operator answered
\* "yes" in some mix of upper and lower case; on any other answer it returns
\* to the menu and the store is as it was.
YesSpellings == {"yes", "Yes", "YES"}

DeleteOnlyOnYes ==
    /\ (script = "delete_pages" /\ pc' \in {"commit", "deleting"}) =>
            confirm' \in YesSpellings
    /\ (pc = "p2_confirm" /\ pc' # pc /\ confirm' \notin YesSpellings) =>
            /\ pc' = "menu"
            /\ UNCHANGED <<pageExists, pageText>>

C35_DeleteOnlyOnYes == [][DeleteOnlyOnYes]_vars

C35_Witness ==
    /\ script = "delete_pages"
    /\ pc = "deleting"
    /\ confirm = "YES"

\* C36: create_redirect saves a target only if the target holds no illegal
\* character and redirect_page.exists() answered no in that call, and the
\* rate-limit sleep follows such a save and nothing else.
SaveOnlyAbsentTarget ==
    script = "languageredirects" =>
        /\ (pc # "lr_saving" /\ pc' = "lr_saving") =>
                /\ ~has_illegal_chars(item')
                /\ redirect_page_exists' = "no"
        /\ since_mut' # since_mut => pc = "lr_saving"

C36_SaveOnlyAbsentTarget == [][SaveOnlyAbsentTarget]_vars

C36_Witness ==
    /\ script = "languageredirects"
    /\ pc = "lr_commit"
    /\ since_mut = LanguageRedirectsSleep
    /\ redirect_page_exists = "yes"
    /\ Cardinality(mutated) = 1

\* C37: a committer saves what the transformation makes of the page text as
\* it reads it at commit time; an item whose page the transformation no longer
\* alters, after a change between scan and commit, is taken from the queue
\* without a save.
SavesTheTextReadAtCommit ==
    /\ (script \in FRScripts /\ pc # "fr_saving" /\ pc' = "fr_saving") =>
            apply_mappings(pageText[item'], mappings[script]) # pageText[item']
    /\ (script \in FRScripts /\ pc = "fr_saving" /\ pageText' # pageText) =>
            pageText' = [pageText EXCEPT ![item] = apply_mappings(@, mappings[script])]
    /\ (script \in FRScripts /\ pc = "fr_commit" /\ edit_queue' # edit_queue
            /\ apply_mappings(pageText[Head(edit_queue)], mappings[script])
                    = pageText[Head(edit_queue)]) =>
            pc' = "fr_commit" /\ mutated' = mutated
    /\ (script = "languageheader" /\ process_queue_take("same")) =>
            pc' = "lh_commit" /\ mutated' = mutated

C37_SavesTheTextReadAtCommit == [][SavesTheTextReadAtCommit]_vars

C37_Witness ==
    /\ script = "findandreplace"
    /\ pc = "done"
    /\ titles = <<"A", "B">>
    /\ workers[1].out = "A"
    /\ workers[2].out = "B"
    /\ pageExists["A"]
    /\ not_found = 0
    /\ mutated = {"B"}
    /\ pageText["A"] = <<"x">>
    /\ pageText["B"] = <<"sw", "x">>

\* C40: the commit loops of delete_pages and oldid terminate when every
\* store call returns or raises: each iteration takes one item off the front
\* and nothing is added, so what is left is always the tail of the queue as
\* it was at commit start, and the loop ends with every item taken once.
LeftOf(start, taken) == SubSeq(start, taken + 1, Len(start))

OneItemPerIteration ==
    /\ (script = "delete_pages" /\ pc \in {"commit", "deleting", "p2_report"}) =>
            /\ dequeued <= Len(Flatten(json_file.data))
            /\ deletion_queue = LeftOf(Flatten(json_file.data), dequeued)
    /\ (script = "oldid" /\ pc \in {"oldid_commit", "oldid_saving", "done"}) =>
            /\ dequeued <= Len(titles)
            /\ oldid_q = LeftOf(titles, dequeued)

C40_CommitLoopsTerminate ==
    /\ []OneItemPerIteration
    /\ (script = "delete_pages" /\ pc = "commit")
            ~> (pc = "p2_report" /\ deletion_queue = <<>>)
    /\ (script = "oldid" /\ pc = "oldid_commit") ~> (pc = "done" /\ oldid_q = <<>>)

\* C10: an item whose page does not exist at commit time (the re-check says
\* so, or page.delete raises NoPageError) changes neither
\* successful_deletions nor failed_deletions, and the loop goes on.
C10_NotFoundNotCounted ==
    [][(script = "delete_pages" /\ not_found' = not_found + 1) =>
          /\ successful_deletions' = successful_deletions
          /\ failed_deletions' = failed_deletions
          /\ pc' = "commit"]_vars

\* a commit over the map the scan just wrote, in which one page had vanished
\* and another was deleted
C10_Witness ==
    /\ script = "delete_pages"
    /\ pc = "p2_report"
    /\ json_file.fresh
    /\ not_found >= 1
    /\ successful_deletions >= 1
    /\ failed_deletions = 0

====
